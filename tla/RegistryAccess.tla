--------------------------- MODULE RegistryAccess ---------------------------
(***************************************************************************)
(* How a mounted layer reaches its registry.  Threads read blobs, check    *)
(* their connection (fs.Check) and resolve them; each request goes through *)
(* an AuthClient, which answers a challenge by exchanging the credentials  *)
(* of the image for a token and sends the request once more.  AuthClients  *)
(* come from the RegistryManager, which caches them per image and shares   *)
(* them between images with equal credentials.  One AuthClient serves all  *)
(* hosts of an image, its mirrors and the registry: its handler runs one   *)
(* exchange at a time, and docker.Authorizer keeps a token for every host. *)
(* A blob's fetcher remembers its host and the storage URL to which that   *)
(* host redirected it; those URLs expire.                                  *)
(*                                                                         *)
(* The registry, the storage behind it and docker.Authorizer are external: *)
(* they are modelled by the answers the code tells apart.  Payloads and    *)
(* byte ranges are the subject of module LayerFiles.                       *)
(***************************************************************************)
EXTENDS Keychains, Naturals, Sequences, Functions

CONSTANTS
    Threads,
    Clients,        \* identities for AuthClients
    Fetchers,       \* identities for httpFetchers
    None,
    Configs,        \* settings: EnableAuthClientSharing, ForceSingleRangeMode, the hosts
                    \* of an image (its mirrors, then the registry itself), whether they
                    \* redirect to a storage URL, whether labels tell a layer's size
    Works,          \* which thread may work on the blob of which image
    Faults,         \* subset of {"network", "refused", "exchange", "size", "badRequest", "cancel"}
    MaxEvents       \* bound on expiries, closings and changes of credentials

ASSUME AccessAssumption ==
    /\ None \notin Clients \cup Fetchers \cup Images
    /\ Configs \subseteq [sharing : BOOLEAN, redirects : BOOLEAN, single : BOOLEAN,
                            sized : BOOLEAN, hosts : Nat \ {0}]
    /\ Works \subseteq Threads \X Images
    /\ MaxEvents \in Nat

VARIABLES
    config,         \* one of Configs
    hostMap,        \* registryHostMap: image -> AuthClient entry
    authMap,        \* authClientMap: key -> AuthClient entry
    sweeper,        \* what the sweeper found expired and is about to delete
    client,         \* AuthClients: the images that joined one, the hosts that honour
                    \* its token for them, and its handler's inflight and inflightErr
    blob,           \* image -> the blob of its layer
    fetcher,        \* httpFetchers
    liveURL,        \* the oldest storage URL that still works
    th,             \* the threads
    events

accessVars == <<config, hostMap, authMap, sweeper, client, blob, fetcher, liveURL, th, events>>
vars == <<accessVars, keychainVars>>
mapVars == <<hostMap, authMap>>
objectVars == <<client, fetcher>>
worldVars == <<config, sweeper, liveURL, events>>

Hosts == 1 .. config.hosts
Keys == Creds \cup {NoCred} \cup Images
RegistryURL == 0
NoEntry == [client |-> None, old |-> FALSE]
NoBlob == [fetcher |-> None, checked |-> FALSE, closed |-> FALSE]
NoClient == [refs |-> <<>>, tokens |-> {}, inflight |-> FALSE, err |-> FALSE]
NoFetcher == [client |-> None, host |-> 1, url |-> RegistryURL, single |-> FALSE]

\* fresh: the hosts a token was obtained for since the thread was challenged.
Idle == [pc |-> "idle", op |-> None, img |-> None, client |-> None, fid |-> None,
         purpose |-> None, host |-> 1, url |-> RegistryURL, retry |-> FALSE,
         single |-> FALSE, turn |-> 0, key |-> None, fresh |-> {}]

Entries == [client : Clients \cup {None}, old : BOOLEAN]

TypeOK ==
    /\ KeychainTypeOK
    /\ config \in Configs
    /\ hostMap \in [Images -> Entries]
    /\ authMap \in [Keys -> Entries]
    /\ sweeper \in {None} \cup ({"host"} \X Images) \cup ({"auth"} \X Keys)
    /\ \A c \in Clients : Range(client[c].refs) \subseteq Images /\ IsInjective(client[c].refs)
    /\ \A i \in Images : blob[i].fetcher # None => fetcher[blob[i].fetcher].client # None
    /\ \A f \in Fetchers : fetcher[f].url <= liveURL
    /\ \A t \in Threads : th[t].pc \in {"send", "resend"} => th[t].client # None
    /\ events \in 0 .. MaxEvents

Init ==
    /\ KeychainInit
    /\ config \in Configs
    /\ hostMap = [i \in Images |-> NoEntry]
    /\ authMap = [k \in Keys |-> NoEntry]
    /\ sweeper = None
    /\ client = [c \in Clients |-> NoClient]
    /\ blob = [i \in Images |-> NoBlob]
    /\ fetcher = [f \in Fetchers |-> NoFetcher]
    /\ liveURL = 1
    /\ th = [t \in Threads |-> Idle]
    /\ events = 0

\* Objects nobody can reach any more are garbage: their identity is free.
\* Clients and Fetchers bound how many there are at a time.
LiveFetchers == {blob[i].fetcher : i \in Images} \cup {th[t].fid : t \in Threads}
LiveClients == {hostMap[i].client : i \in Images} \cup {authMap[k].client : k \in Keys}
               \cup {fetcher[f].client : f \in LiveFetchers \ {None}}
               \cup {th[t].client : t \in Threads}
NewClient == CHOOSE c \in Clients \ LiveClients : TRUE
NewFetcher == CHOOSE f \in Fetchers \ LiveFetchers : TRUE

\* The objects after a step that leaves them as fs and cs, without the garbage.
Collect(fs, cs) ==
    /\ \E live \in {LiveFetchers'} :
          fetcher' = [f \in Fetchers |-> IF f \in live THEN fs[f] ELSE NoFetcher]
    /\ \E live \in {LiveClients'} :
          client' = [c \in Clients |-> IF c \in live THEN cs[c] ELSE NoClient]

At(t, pc) == th[t].pc = pc
Go(t, pc) == th' = [th EXCEPT ![t].pc = pc]
Finish(t) == th' = [th EXCEPT ![t] = Idle]
Purpose(t, p) == th[t].purpose = p /\ th[t].pc \in {"send", "resend", "failed"}

-----------------------------------------------------------------------------
(***************************************************************************)
(* RegistryManager.AsRegistryHosts, run by a thread that resolves or       *)
(* refreshes a blob of image th[t].img.  The two maps are sync.Maps: each  *)
(* load, delete and store is a step of its own.                            *)
(***************************************************************************)

\* The hosts are known: the first request asks the first of them for the blob,
\* unless the blob to refresh has been closed.
WithHosts(t, c) ==
    IF th[t].op = "check" /\ blob[th[t].img].closed THEN Finish(t)
    ELSE th' = [th EXCEPT ![t].client = c, ![t].host = 1, ![t].purpose = "redirect",
                          ![t].key = None, ![t].url = RegistryURL, ![t].pc = "send"]

hostsLoad(t) ==
    LET e == hostMap[th[t].img] IN
    /\ At(t, "hostsLoad")
    /\ IF e.client # None /\ ~e.old THEN WithHosts(t, e.client)
       ELSE Go(t, IF e.client = None THEN "authKey" ELSE "hostsDrop")
    /\ UNCHANGED <<keychainVars, mapVars, objectVars, blob, worldVars>>

hostsDrop(t) ==
    /\ At(t, "hostsDrop")
    /\ hostMap' = [hostMap EXCEPT ![th[t].img] = NoEntry]
    /\ Go(t, "authKey")
    /\ UNCHANGED <<keychainVars, authMap, blob, worldVars>>
    /\ Collect(fetcher, client)

\* authClientKey: the host and the credentials, or the image when they cannot
\* be resolved.  Without sharing every image gets a client of its own.
authClientKey(t) ==
    /\ At(t, "authKey")
    /\ IF ~config.sharing THEN Go(t, "newClient")
       ELSE \E c \in multiCredsFuncs(th[t].img) :
              LET k == IF c = BadAuth THEN th[t].img ELSE c IN
              th' = [th EXCEPT ![t].key = k,
                               ![t].client = IF authMap[k].old THEN None ELSE authMap[k].client,
                               ![t].pc = IF authMap[k].old THEN "authDrop"
                                         ELSE IF authMap[k].client = None THEN "newClient"
                                         ELSE "addRef"]
    /\ UNCHANGED <<keychainVars, mapVars, objectVars, blob, worldVars>>

authDrop(t) ==
    /\ At(t, "authDrop")
    /\ authMap' = [authMap EXCEPT ![th[t].key] = NoEntry]
    /\ Go(t, "newClient")
    /\ UNCHANGED <<keychainVars, hostMap, blob, worldVars>>
    /\ Collect(fetcher, client)

\* newAuthClient and, when it is shared, LoadOrStore: whoever stored first,
\* even an entry that has expired since, provides the client.
newAuthClient(t) ==
    LET k == th[t].key
        new == NewClient
        lost == config.sharing /\ authMap[k].client # None
    IN
    /\ At(t, "newClient")
    /\ lost \/ Clients \ LiveClients # {}
    /\ th' = [th EXCEPT ![t].pc = "addRef",
                        ![t].client = IF lost THEN authMap[k].client ELSE new]
    /\ authMap' = IF config.sharing /\ ~lost
                  THEN [authMap EXCEPT ![k] = [client |-> new, old |-> FALSE]] ELSE authMap
    /\ UNCHANGED <<keychainVars, hostMap, objectVars, blob, worldVars>>

\* A plausible slip: only the image that created the client is registered.
Slip_NotRegistered(t) ==
    LET i == th[t].img  c == th[t].client IN
    /\ At(t, "addRef")
    /\ hostMap' = [hostMap EXCEPT ![i] = [client |-> c, old |-> FALSE]]
    /\ WithHosts(t, c)
    /\ UNCHANGED <<keychainVars, authMap, blob, worldVars>>
    /\ Collect(fetcher, IF client[c].refs # <<>> THEN client
                        ELSE [client EXCEPT ![c].refs = <<i>>])

addRef(t) ==
    LET i == th[t].img  c == th[t].client IN
    /\ At(t, "addRef")
    /\ hostMap' = [hostMap EXCEPT ![i] = [client |-> c, old |-> FALSE]]
    /\ WithHosts(t, c)
    /\ UNCHANGED <<keychainVars, authMap, blob, worldVars>>
    /\ Collect(fetcher, IF i \in Range(client[c].refs) THEN client
                        ELSE [client EXCEPT ![c].refs = Append(@, i)])

\* sweep: an entry is found expired, then the key is deleted.
sweepFinds ==
    /\ sweeper = None
    /\ \/ \E i \in Images : hostMap[i].old /\ sweeper' = <<"host", i>>
       \/ \E k \in Keys : authMap[k].old /\ sweeper' = <<"auth", k>>
    /\ UNCHANGED <<keychainVars, mapVars, objectVars, blob, config, liveURL, events, th>>

sweepDeletes ==
    /\ sweeper # None
    /\ IF sweeper[1] = "host"
       THEN hostMap' = [hostMap EXCEPT ![sweeper[2]] = NoEntry] /\ UNCHANGED authMap
       ELSE authMap' = [authMap EXCEPT ![sweeper[2]] = NoEntry] /\ UNCHANGED hostMap
    /\ sweeper' = None
    /\ UNCHANGED <<keychainVars, blob, config, liveURL, events, th>>
    /\ Collect(fetcher, client)

-----------------------------------------------------------------------------
(***************************************************************************)
(* AuthClient.Do.  A request is sent with the token the client has; when   *)
(* the answer warrants authentication the handler is asked for a new token *)
(* and the request is sent again, once.  The answers of the registry and   *)
(* of the storage are external.                                            *)
(***************************************************************************)
Trouble(t) == (IF "network" \in Faults THEN {"error"} ELSE {})
              \cup (IF "refused" \in Faults THEN {"refused", "403"} ELSE {})
              \cup (IF "badRequest" \in Faults /\ th[t].purpose = "fetch" THEN {"400"} ELSE {})

\* A host wants a valid token of its own; a storage URL carries one.
Answers(t) ==
    IF th[t].url = RegistryURL
    THEN IF th[t].host \in client[th[t].client].tokens THEN {"ok"} \cup Trouble(t)
         ELSE {"401", "403 token expired"}
    ELSE IF th[t].url >= liveURL THEN {"ok"} \cup Trouble(t) ELSE {"403", "400 token expired"}

\* The message in the body of a 403, as ECR sends it, tells whether it is one.
shouldAuthenticate(status) == status \in {"401", "403 token expired"}

\* What the caller sees: the policy makes a 401 of S3's 400, whose URL has to
\* be refreshed by the fetcher.
StatusCode(status) ==
    CASE status = "403 token expired" -> "403"
      [] status = "400 token expired" -> "401"
      [] OTHER -> status

\* Do returns with an answer, or with the error of a failed challenge.
Returns(t, code) ==
    \/ At(t, "send") /\ \E a \in Answers(t) : ~shouldAuthenticate(a) /\ code = StatusCode(a)
    \/ At(t, "resend") /\ \E a \in Answers(t) : code = StatusCode(a)
    \/ At(t, "failed") /\ code = "error"

challenged(t) ==
    /\ At(t, "send")
    /\ \E status \in Answers(t) : shouldAuthenticate(status)
    /\ th' = [th EXCEPT ![t].pc = "challenge", ![t].fresh = {}]
    /\ UNCHANGED <<keychainVars, mapVars, objectVars, blob, worldVars>>

\* A plausible slip: whoever is challenged exchanges the token.
Slip_EveryoneLeads(t) ==
    LET c == th[t].client IN
    /\ At(t, "challenge")
    /\ Go(t, "exchange")
    /\ client' = [client EXCEPT ![c].inflight = TRUE]
    /\ UNCHANGED <<keychainVars, mapVars, fetcher, blob, worldVars>>

\* A plausible slip: a thread that is not the first does not wait.
Slip_NoWaiting(t) ==
    LET c == th[t].client IN
    /\ At(t, "challenge")
    /\ Go(t, IF client[c].inflight THEN "resend" ELSE "exchange")
    /\ client' = [client EXCEPT ![c].inflight = TRUE]
    /\ UNCHANGED <<keychainVars, mapVars, fetcher, blob, worldVars>>

Challenged(t) == th[t].pc \in {"challenge", "exchange", "wait", "woken"}

\* HandleChallenge: the first thread exchanges the token, the others wait.
HandleChallenge(t) ==
    LET c == th[t].client IN
    /\ At(t, "challenge")
    /\ Go(t, IF client[c].inflight THEN "wait" ELSE "exchange")
    /\ client' = [client EXCEPT ![c].inflight = TRUE]
    /\ UNCHANGED <<keychainVars, mapVars, fetcher, blob, worldVars>>

\* sharedAuthClient.credsFunc: the newest image that has credentials decides.
credsFunc(c) ==
    LET refs == client[c].refs
        known == {n \in DOMAIN refs : multiCredsFuncs(refs[n]) # {NoCred}}
        newest == CHOOSE n \in known : \A k \in known : k <= n
    IN  IF known = {} THEN {NoCred} ELSE multiCredsFuncs(refs[newest])

\* AddResponses, external: the exchange needs credentials the registry takes.
Exchanged(c) ==
    {cred \in Creds : cred \in credsFunc(c)} # {}

\* The leader's exchange, for the host that refused it, ends: the result is
\* published and the channel closed for all waiters, whatever their host.
AddResponses(t) ==
    LET c == th[t].client IN
    /\ At(t, "exchange")
    /\ \E ok \in BOOLEAN :
          /\ ok => Exchanged(c)
          /\ ~ok => "exchange" \in Faults \/ ~Exchanged(c)
          /\ client' = [client EXCEPT ![c].tokens = @ \cup (IF ok THEN {th[t].host} ELSE {}),
                                      ![c].err = ~ok, ![c].inflight = FALSE]
          /\ th' = [u \in Threads |->
                IF th[u].client = c /\ Challenged(u)
                THEN [th[u] EXCEPT !.pc = CASE u = t -> IF ok THEN "resend" ELSE "failed"
                                            [] u # t /\ @ = "wait" -> "woken"
                                            [] OTHER -> @,
                                   !.fresh = IF ok THEN @ \cup {th[t].host} ELSE @]
                ELSE th[u]]
    /\ UNCHANGED <<keychainVars, mapVars, fetcher, blob, worldVars>>

\* A waiter reads the result after the channel was closed and without the
\* lock: by then it may be the result of a later exchange.
woken(t) ==
    /\ At(t, "woken")
    /\ Go(t, IF client[th[t].client].err THEN "failed" ELSE "resend")
    /\ UNCHANGED <<keychainVars, mapVars, objectVars, blob, worldVars>>

\* The request of a mount that is given up; reads have no deadline.
cancelled(t) ==
    /\ "cancel" \in Faults
    /\ At(t, "wait") /\ th[t].op = "resolve"
    /\ Go(t, "failed")
    /\ UNCHANGED <<keychainVars, mapVars, objectVars, blob, worldVars>>

-----------------------------------------------------------------------------
(***************************************************************************)
(* blob.ReadAt: fetchRegion takes the fetcher and asks it for the region;  *)
(* httpFetcher.fetch retries once, with a refreshed URL or in single range *)
(* mode.                                                                   *)
(***************************************************************************)
ReadAt(t, i) ==
    /\ At(t, "idle")
    /\ blob[i].fetcher # None
    /\ ~blob[i].closed
    /\ th' = [th EXCEPT ![t].op = "read", ![t].img = i, ![t].fid = blob[i].fetcher,
                        ![t].client = fetcher[blob[i].fetcher].client,
                        ![t].retry = TRUE, ![t].pc = "fetch"]
    /\ UNCHANGED <<keychainVars, mapVars, objectVars, blob, worldVars>>

fetch(t) ==
    LET f == fetcher[th[t].fid] IN
    /\ At(t, "fetch")
    /\ th' = [th EXCEPT ![t].host = f.host, ![t].url = f.url, ![t].single = f.single,
                        ![t].purpose = "fetch", ![t].pc = "send"]
    /\ UNCHANGED <<keychainVars, mapVars, objectVars, blob, worldVars>>

Fetched(t) ==
    /\ Purpose(t, "fetch")
    /\ UNCHANGED <<keychainVars, mapVars, worldVars>>
    /\ \E status \in {"ok", "401", "403", "400", "refused", "error"} :
       /\ Returns(t, status)
       /\ \/ /\ status = "ok"
             /\ blob' = [blob EXCEPT ![th[t].img].checked = TRUE]
             /\ Finish(t)
             /\ Collect(fetcher, client)
          \/ /\ status \in {"401", "403"} /\ th[t].retry
             /\ th' = [th EXCEPT ![t].purpose = "refreshURL", ![t].url = RegistryURL,
                                 ![t].retry = FALSE, ![t].pc = "send"]
             /\ UNCHANGED <<blob, objectVars>>
          \/ /\ status = "400" /\ th[t].retry /\ ~th[t].single
             /\ fetcher' = [fetcher EXCEPT ![th[t].fid].single = TRUE]
             /\ th' = [th EXCEPT ![t].retry = FALSE, ![t].pc = "fetch"]
             /\ UNCHANGED <<blob, client>>
          \/ /\ \/ status \in {"refused", "error"}
                \/ status \in {"401", "403"} /\ ~th[t].retry
                \/ status = "400" /\ (th[t].single \/ ~th[t].retry)
             /\ Finish(t)
             /\ UNCHANGED blob
             /\ Collect(fetcher, client)

\* The sources of the layer are looked up again, with their hosts.
getSources(t) ==
    th' = [th EXCEPT ![t] = [Idle EXCEPT !.op = th[t].op, !.img = th[t].img, !.pc = "hostsLoad"]]

\* refreshURL asks the registry where the blob is now.
refreshURL(t) ==
    /\ Purpose(t, "refreshURL")
    /\ \E status \in {"ok", "401", "403", "refused", "error"} :
       /\ Returns(t, status)
       /\ IF status = "ok"
          THEN th' = [th EXCEPT ![t].url = IF config.redirects THEN liveURL ELSE RegistryURL,
                                ![t].pc = "storeURL"]
          ELSE IF th[t].op = "read" THEN Finish(t) ELSE getSources(t)
    /\ UNCHANGED <<keychainVars, mapVars, blob, worldVars>>
    /\ Collect(fetcher, client)

storeURL(t) ==
    /\ At(t, "storeURL")
    /\ IF th[t].op = "read" THEN Go(t, "fetch") /\ UNCHANGED blob
       ELSE Finish(t) /\ blob' = [blob EXCEPT ![th[t].img].checked = TRUE]
    /\ UNCHANGED <<keychainVars, mapVars, worldVars>>
    /\ Collect([fetcher EXCEPT ![th[t].fid].url = th[t].url], client)

-----------------------------------------------------------------------------
(***************************************************************************)
(* fs.Check: a blob not accessed for an interval is asked for a byte; when *)
(* that fails the connection is refreshed with a new fetcher.              *)
(***************************************************************************)
Check(t, i) ==
    /\ At(t, "idle")
    /\ blob[i].fetcher # None
    /\ ~blob[i].checked \/ blob[i].closed
    /\ th' = [th EXCEPT ![t] =
          IF blob[i].closed
          THEN [Idle EXCEPT !.op = "check", !.img = i, !.pc = "hostsLoad"]
          ELSE [Idle EXCEPT !.op = "check", !.img = i, !.pc = "send",
                            !.purpose = "check", !.fid = blob[i].fetcher,
                            !.client = fetcher[blob[i].fetcher].client,
                            !.host = fetcher[blob[i].fetcher].host,
                            !.url = fetcher[blob[i].fetcher].url]]
    /\ UNCHANGED <<keychainVars, mapVars, objectVars, blob, worldVars>>

Checked(t) ==
    /\ Purpose(t, "check")
    /\ \E status \in {"ok", "401", "403", "refused", "error"} :
       /\ Returns(t, status)
       /\ \/ /\ status = "ok"
             /\ blob' = [blob EXCEPT ![th[t].img].checked = TRUE]
             /\ Finish(t)
          \/ /\ status = "403"
             /\ th' = [th EXCEPT ![t].purpose = "refreshURL", ![t].url = RegistryURL,
                                 ![t].pc = "send"]
             /\ UNCHANGED blob
          \/ /\ status \in {"401", "refused", "error"}
             /\ getSources(t)
             /\ UNCHANGED blob
    /\ UNCHANGED <<keychainVars, mapVars, worldVars>>
    /\ Collect(fetcher, client)

-----------------------------------------------------------------------------
(***************************************************************************)
(* Resolver.Resolve and blob.Refresh make a new fetcher (newHTTPFetcher):  *)
(* the hosts are tried in turn until one says where the blob is; the size  *)
(* of the blob is asked for when the labels of the layer do not tell it.   *)
(***************************************************************************)
Resolve(t, i) ==
    /\ At(t, "idle")
    /\ blob[i].fetcher = None
    /\ \A u \in Threads : ~(th[u].op = "resolve" /\ th[u].img = i)
    /\ th' = [th EXCEPT ![t] = [Idle EXCEPT !.op = "resolve", !.img = i, !.pc = "hostsLoad"]]
    /\ UNCHANGED <<keychainVars, mapVars, objectVars, blob, worldVars>>

redirect(t) ==
    /\ Purpose(t, "redirect")
    /\ UNCHANGED <<keychainVars, mapVars, blob, worldVars>>
    /\ \E status \in {"ok", "401", "403", "refused", "error"} :
       /\ Returns(t, status)
       /\ \/ /\ status = "ok"
             /\ Fetchers \ LiveFetchers # {}
             /\ LET f == NewFetcher
                    url == IF config.redirects THEN liveURL ELSE RegistryURL
                IN /\ fetcher' = [fetcher EXCEPT ![f] =
                         [client |-> th[t].client, host |-> th[t].host, url |-> url,
                          single |-> config.single]]
                   /\ UNCHANGED client
                   /\ th' = [th EXCEPT ![t].fid = f, ![t].url = url, ![t].turn = 1,
                                       ![t].purpose = "size",
                                       ![t].pc = IF config.sized THEN "made" ELSE "send"]
          \/ /\ status # "ok" /\ th[t].host < config.hosts
             /\ th' = [th EXCEPT ![t].host = @ + 1, ![t].pc = "send"]
             /\ UNCHANGED objectVars
          \/ /\ status # "ok" /\ th[t].host = config.hosts
             /\ Finish(t)
             /\ Collect(fetcher, client)

\* getLayerSize: a HEAD, a GET of the first bytes, a GET.
getLayerSize(t) ==
    /\ Purpose(t, "size")
    /\ \E status \in {"ok", "401", "403", "refused", "error"} :
       /\ Returns(t, status)
       /\ \/ status = "ok" /\ Go(t, "made")
          \/ status \in {"401", "403", "refused"} /\ th[t].turn < 3
             /\ th' = [th EXCEPT ![t].turn = @ + 1, ![t].pc = "send"]
          \/ status \in {"401", "403", "refused"} /\ th[t].turn = 3 /\ Finish(t)
          \/ status = "error" /\ Finish(t)
    /\ UNCHANGED <<keychainVars, mapVars, blob, worldVars>>
    /\ Collect(fetcher, client)

\* The fetcher is ready.  A refreshed blob must have kept its size.
fetcherMade(t) ==
    /\ At(t, "made")
    /\ \/ blob' = [blob EXCEPT ![th[t].img].fetcher = th[t].fid, ![th[t].img].checked = TRUE]
       \/ th[t].op = "check" /\ "size" \in Faults /\ UNCHANGED blob
    /\ Finish(t)
    /\ UNCHANGED <<keychainVars, mapVars, worldVars>>
    /\ Collect(fetcher, client)

-----------------------------------------------------------------------------
(***************************************************************************)
(* The world changes: tokens, storage URLs, cache entries and the check    *)
(* interval expire, layers are unmounted, credentials come and go.         *)
(***************************************************************************)
Happens == events < MaxEvents /\ events' = events + 1

Close(i) ==
    /\ Happens
    /\ blob[i].fetcher # None /\ ~blob[i].closed
    /\ blob' = [blob EXCEPT ![i].closed = TRUE]
    /\ UNCHANGED <<keychainVars, mapVars, objectVars, config, sweeper, liveURL, th>>

tokenExpires(c, h) ==
    /\ Happens
    /\ h \in client[c].tokens /\ client' = [client EXCEPT ![c].tokens = @ \ {h}]
    /\ UNCHANGED <<keychainVars, mapVars, fetcher, blob, config, sweeper, liveURL, th>>

\* Time passes: storage URLs expire, and blobs have not been accessed for the
\* check interval.
timePasses(expired, unused) ==
    /\ Happens
    /\ expired => config.redirects
    /\ liveURL' = IF expired THEN liveURL + 1 ELSE liveURL
    /\ blob' = [i \in Images |-> [blob[i] EXCEPT !.checked = @ /\ i \notin unused]]
    /\ UNCHANGED <<keychainVars, mapVars, objectVars, config, sweeper, th>>

entriesExpire ==
    /\ Happens
    /\ \/ /\ \E i \in Images : /\ hostMap[i].client # None
                               /\ hostMap' = [hostMap EXCEPT ![i].old = TRUE]
          /\ UNCHANGED authMap
       \/ /\ \E k \in Keys : /\ authMap[k].client # None
                             /\ authMap' = [authMap EXCEPT ![k].old = TRUE]
          /\ UNCHANGED hostMap
    /\ UNCHANGED <<keychainVars, objectVars, blob, config, sweeper, liveURL, th>>

credentialsChange ==
    /\ Happens
    /\ \/ \E i \in Images, a \in Creds \cup {NoCred, BadAuth} : PullImage(i, a)
       \/ \E i \in Images : RemoveImage(i)
       \/ \E s \in Secrets, v \in Creds \cup {NoCred, BadAuth} : SecretEvent(s, v)
    /\ UNCHANGED <<mapVars, objectVars, blob, config, sweeper, liveURL, th>>

\* A secret changes again while the keychain processes it; not counted.
secretChangesAgain ==
    /\ syncing # NotSyncing
    /\ \E v \in Creds \cup {NoCred, BadAuth} : SecretEvent(syncing[1], v)
    /\ UNCHANGED accessVars

keychainStep == (\E s \in Secrets : processNextItem(s)) \/ applySecret

Step(t) ==
    \/ hostsLoad(t) \/ hostsDrop(t) \/ authClientKey(t) \/ authDrop(t) \/ newAuthClient(t)
    \/ addRef(t) \/ challenged(t) \/ HandleChallenge(t) \/ AddResponses(t) \/ woken(t)
    \/ fetch(t) \/ Fetched(t) \/ refreshURL(t) \/ storeURL(t) \/ Checked(t)
    \/ redirect(t) \/ getLayerSize(t) \/ fetcherMade(t)

Next ==
    \/ \E t \in Threads : Step(t) \/ cancelled(t)
    \/ \E w \in Works : ReadAt(w[1], w[2]) \/ Check(w[1], w[2]) \/ Resolve(w[1], w[2])
    \/ \E i \in Images : Close(i)
    \/ \E expired \in BOOLEAN, unused \in SUBSET Images : timePasses(expired, unused)
    \/ \E c \in Clients, h \in Hosts : tokenExpires(c, h)
    \/ sweepFinds \/ sweepDeletes
    \/ entriesExpire \/ credentialsChange \/ secretChangesAgain
    \/ keychainStep /\ UNCHANGED accessVars

Spec == Init /\ [][Next]_vars

-----------------------------------------------------------------------------
\* Concurrent challenges are deduplicated: of the threads whose requests a
\* client saw refused, one at a time exchanges the credentials for a token.
\* And nobody waits in vain: a thread that waits for another one's exchange
\* waits for one that is going on, so it is woken however that exchange ends.
OneExchangePerClient ==
    /\ \A t, u \in Threads :
          At(t, "exchange") /\ At(u, "exchange") /\ th[t].client = th[u].client => t = u
    /\ \A t \in Threads : At(t, "wait") =>
          /\ client[th[t].client].inflight
          /\ \E u \in Threads : At(u, "exchange") /\ th[u].client = th[t].client

\* A request is sent again only after its client has obtained a token since the
\* request was refused, whoever asked for it: Do sends it a second time after
\* HandleChallenge has returned nil, which a waiter learns from a field read
\* without the lock, perhaps that of a later exchange.  Without mirrors the token
\* is one for the request's host; with mirrors it may be one for another of the
\* hosts, and the request is then refused again.
ResentWithNewToken ==
    \A t \in Threads : At(t, "resend") =>
        /\ th[t].fresh # {}
        /\ config.hosts = 1 => th[t].host \in th[t].fresh

\* A token is not asked for anonymously on behalf of an image that has
\* credentials: the shared client's credential function looks at every image
\* that joined the client, so credentials removed with another image, or the
\* expiry of cached entries, do not leave this image without any.
ExchangesAreNotAnonymous ==
    \A t \in Threads :
        At(t, "exchange") /\ NoCred \notin multiCredsFuncs(th[t].img)
            => NoCred \notin credsFunc(th[t].client)

-----------------------------------------------------------------------------
\* The waiters of a challenge reuse the leader's token: a request is sent again
\* only with a token of its own host obtained since it was refused.
ResentWithTokenOfItsHost ==
    \A t \in Threads : At(t, "resend") => th[t].host \in th[t].fresh
=============================================================================
