------------------------ MODULE RegistryAccessProofs ------------------------
(***************************************************************************)
(* Proofs about the requests to the registry, for any number of threads,   *)
(* images, secrets and hosts.                                              *)
(*                                                                         *)
(* What the handler of an AuthClient knows of an exchange is a flag, so    *)
(* InflightInv ties the flag to the thread that leads: it is set exactly   *)
(* while one is at it, which is why a waiter is always woken.  FreshInv    *)
(* covers the error that a woken waiter reads without the lock.  RefsInv   *)
(* says that whatever an image can reach its registry through, a cached    *)
(* entry, a fetcher or a request under way, leads to a client that the     *)
(* image has joined; objects that are dropped take nothing of this away.   *)
(***************************************************************************)
EXTENDS RegistryAccess, TLAPS

\* The pcs of a request between AuthClient.Do and its return.
Asking == {"send", "challenge", "wait", "woken", "exchange", "resend", "failed"}

\* The pcs of a thread that has no client yet.
Early == {"idle", "hostsLoad", "hostsDrop", "authKey", "authDrop", "newClient"}

\* The purposes of a request that is made with a fetcher.
WithFetcher == {"fetch", "refreshURL", "check", "size"}
Purposes == WithFetcher \cup {"redirect"}

PCs == Early \cup Asking \cup {"addRef", "fetch", "storeURL", "made"}

ThreadStates ==
    [pc : PCs, op : {None, "read", "check", "resolve"}, img : Images \cup {None},
     client : Clients \cup {None}, fid : Fetchers \cup {None},
     purpose : Purposes \cup {None}, host : Hosts, url : Nat, retry : BOOLEAN,
     single : BOOLEAN, turn : Nat, key : Keys \cup {None}, fresh : SUBSET Hosts]

ClientStates == [refs : Seq(Images), tokens : SUBSET Nat, inflight : BOOLEAN, err : BOOLEAN]
FetcherStates == [client : Clients \cup {None}, host : Hosts, url : Nat, single : BOOLEAN]
BlobStates == [fetcher : Fetchers \cup {None}, checked : BOOLEAN, closed : BOOLEAN]

\* The types of the maps, of the objects and of the threads.
MapsInv ==
    /\ config \in Configs
    /\ hostMap \in [Images -> Entries]
    /\ authMap \in [Keys -> Entries]
    /\ sweeper \in {None} \cup ({"host"} \X Images) \cup ({"auth"} \X Keys)
    /\ liveURL \in Nat
    /\ events \in 0 .. MaxEvents

ObjectsInv ==
    /\ client \in [Clients -> ClientStates]
    /\ fetcher \in [Fetchers -> FetcherStates]
    /\ blob \in [Images -> BlobStates]
    /\ th \in [Threads -> ThreadStates]

\* What a thread needs at its step.
ThreadOK(s) ==
    /\ s.pc \in Early => s.client = None /\ s.fid = None
    /\ s.pc \notin Early => s.client \in Clients
    /\ s.pc # "idle" => s.img \in Images
    /\ s.pc \in {"authDrop"} => s.key \in Keys
    /\ s.pc = "newClient" /\ config.sharing => s.key \in Keys
    /\ s.pc \in Asking => s.purpose \in Purposes
    /\ s.pc \in {"fetch", "storeURL", "made"} => s.fid \in Fetchers
    /\ s.pc \in Asking /\ s.purpose \in WithFetcher => s.fid \in Fetchers
    /\ s.url <= liveURL

ThreadsInv == \A t \in Threads : ThreadOK(th[t])

\* The image i has joined the client c.
Joined(i, c) == c \in Clients /\ i \in Range(client[c].refs)

RefsInv ==
    /\ \A c \in Clients : IsInjective(client[c].refs)
    /\ \A i \in Images : hostMap[i].client # None => Joined(i, hostMap[i].client)
    /\ \A i \in Images : blob[i].fetcher # None => Joined(i, fetcher[blob[i].fetcher].client)
    /\ \A t \in Threads : th[t].fid # None => Joined(th[t].img, fetcher[th[t].fid].client)
    /\ \A t \in Threads : th[t].pc \notin Early \cup {"addRef"} => Joined(th[t].img, th[t].client)

\* A storage URL is known only after it was handed out.
URLsInv == \A f \in Fetchers : fetcher[f].url <= liveURL

\* The flag of a client's handler is set exactly while its one leader exchanges.
Leads(t, c) == th[t].pc = "exchange" /\ th[t].client = c

InflightInv ==
    /\ \A c \in Clients : client[c].inflight <=> \E t \in Threads : Leads(t, c)
    /\ \A t, u \in Threads, c \in Clients : Leads(t, c) /\ Leads(u, c) => t = u
    /\ \A t \in Threads : th[t].pc = "wait" => client[th[t].client].inflight

\* A waiter that is woken finds an error, or a token obtained since it asked.
FreshInv ==
    /\ \A t \in Threads : th[t].pc = "resend" => th[t].fresh # {}
    /\ \A t \in Threads : th[t].pc = "woken" => client[th[t].client].err \/ th[t].fresh # {}

\* The kubernetes keychain: a secret that is neither queued nor in the hands of
\* the worker has been applied, and the worker has its present value unless it
\* was queued again.
KeychainInv ==
    /\ KeychainTypeOK
    /\ \A s \in Secrets :
          s \notin queue /\ secrets[s] # BadAuth /\ (syncing = NotSyncing \/ syncing[1] # s)
              => kubeConfig[s] = secrets[s]
    /\ syncing # NotSyncing /\ syncing[1] \notin queue => syncing[2] = secrets[syncing[1]]

Inv == /\ MapsInv /\ ObjectsInv /\ ThreadsInv /\ RefsInv /\ URLsInv
       /\ InflightInv /\ FreshInv /\ KeychainInv

-----------------------------------------------------------------------------
(* The hosts of the images are a matter of the configuration.              *)

\* There is a first host.
LEMMA FirstHost ==
    ASSUME config \in Configs
    PROVE  1 \in Hosts /\ Hosts \subseteq Nat /\ {} \in SUBSET Hosts
<1>1. config.hosts \in Nat \ {0}
  BY AccessAssumption, ZenonT(60)
<1>2. QED
  BY <1>1, SMTT(60), Z3T(60) DEF Hosts

\* The types depend on nothing else.
LEMMA SameTypes ==
    ASSUME config' = config
    PROVE  ThreadStates' = ThreadStates /\ FetcherStates' = FetcherStates
BY ZenonT(60) DEF ThreadStates, FetcherStates, Hosts

\* A thread at rest and objects that are not in use.
LEMMA Unused ==
    ASSUME config \in Configs
    PROVE  Idle \in ThreadStates /\ NoClient \in ClientStates /\ NoFetcher \in FetcherStates
<1>1. 0 \in Nat /\ <<>> \in Seq(Images)
  BY SMTT(60), Z3T(60)
<1>2. 1 \in Hosts /\ {} \in SUBSET Hosts /\ {} \in SUBSET Nat
  BY FirstHost, ZenonT(60)
<1>3. QED
  BY <1>1, <1>2, ZenonT(60) DEF Idle, ThreadStates, PCs, Early, RegistryURL,
         NoClient, ClientStates, NoFetcher, FetcherStates

-----------------------------------------------------------------------------
(* The kubernetes keychain.                                                *)

\* Nothing but the keychain's own steps touches it.
LEMMA KeychainUnchanged ==
    ASSUME KeychainInv, UNCHANGED keychainVars
    PROVE  KeychainInv'
BY ZenonT(60) DEF KeychainInv, KeychainTypeOK, keychainVars

\* An event changes a secret and queues it.
LEMMA SecretEventStep ==
    ASSUME KeychainInv, NEW s \in Secrets, NEW v \in Creds \cup {NoCred, BadAuth},
           SecretEvent(s, v)
    PROVE  KeychainInv'
<1>1. KeychainTypeOK'
  BY ZenonT(60) DEF KeychainInv, KeychainTypeOK, SecretEvent
<1>2. QED
  BY <1>1, ZenonT(60) DEF KeychainInv, KeychainTypeOK, SecretEvent

\* The worker takes a secret with its present value.
LEMMA TakeStep ==
    ASSUME KeychainInv, NEW s \in Secrets, processNextItem(s)
    PROVE  KeychainInv'
<1>1. KeychainTypeOK'
  BY ZenonT(60) DEF KeychainInv, KeychainTypeOK, processNextItem
<1>2. syncing'[1] = s /\ syncing'[2] = secrets[s]
  BY ZenonT(60) DEF processNextItem
<1>3. secrets' = secrets /\ kubeConfig' = kubeConfig /\ queue' = queue \ {s} /\ syncing = NotSyncing
  BY ZenonT(60) DEF processNextItem
<1>4. ASSUME NEW r \in Secrets, r \notin queue', secrets'[r] # BadAuth,
             syncing' = NotSyncing \/ syncing'[1] # r
      PROVE  kubeConfig'[r] = secrets'[r]
  <2>1. r # s /\ r \notin queue
    BY <1>2, <1>3, <1>4, ZenonT(60) DEF processNextItem, NotSyncing
  <2>2. QED
    BY <1>3, <1>4, <2>1, ZenonT(60) DEF KeychainInv
<1>5. QED
  BY <1>1, <1>2, <1>3, <1>4, ZenonT(60) DEF KeychainInv

\* The worker applies what it took.
LEMMA ApplyStep ==
    ASSUME KeychainInv, applySecret
    PROVE  KeychainInv'
<1>1. PICK s \in Secrets, v \in Creds \cup {NoCred, BadAuth} :
         syncing = <<s, v>>
  BY SMTT(60), Z3T(60) DEF KeychainInv, KeychainTypeOK, applySecret
<1>2. syncing[1] = s /\ syncing[2] = v
  BY <1>1, ZenonT(60)
<1>3. KeychainTypeOK'
  BY <1>2, ZenonT(60) DEF KeychainInv, KeychainTypeOK, applySecret
<1>4. ASSUME NEW r \in Secrets, r \notin queue', secrets'[r] # BadAuth
      PROVE  kubeConfig'[r] = secrets'[r]
  <2>1. secrets' = secrets /\ queue' = queue /\ syncing # NotSyncing
    BY ZenonT(60) DEF applySecret
  <2>2. CASE r = s
    <3>1. v = secrets[s]
      BY <1>2, <1>4, <2>1, <2>2, ZenonT(60) DEF KeychainInv
    <3>2. QED
      BY <1>2, <1>4, <2>1, <2>2, <3>1, ZenonT(60) DEF KeychainInv, KeychainTypeOK, applySecret
  <2>3. CASE r # s
    <3>1. kubeConfig[r] = secrets[r]
      BY <1>2, <1>4, <2>1, <2>3, ZenonT(60) DEF KeychainInv
    <3>2. QED
      BY <1>2, <2>1, <2>3, <3>1, ZenonT(60) DEF KeychainInv, KeychainTypeOK, applySecret
  <2>4. QED
    BY <2>2, <2>3, ZenonT(60)
<1>5. syncing' = NotSyncing
  BY ZenonT(60) DEF applySecret
<1>6. QED
  BY <1>3, <1>4, <1>5, ZenonT(60) DEF KeychainInv

\* PullImage and RemoveImage change what the CRI keychain holds.
LEMMA ImageStep ==
    ASSUME KeychainInv, NEW i \in Images, NEW a \in Creds \cup {NoCred, BadAuth},
           PullImage(i, a) \/ RemoveImage(i)
    PROVE  KeychainInv'
BY ZenonT(60) DEF KeychainInv, KeychainTypeOK, PullImage, RemoveImage

-----------------------------------------------------------------------------
(* What most steps have in common.                                         *)

\* The objects after a step: what is still reachable keeps its references, its
\* flags and its client, and what was not reachable before may be made anew.
ClientKept(c) ==
    \/ client'[c] = NoClient /\ c \notin LiveClients'
    \/ /\ Range(client[c].refs) \subseteq Range(client'[c].refs)
       /\ IsInjective(client'[c].refs)
       /\ client'[c].inflight = client[c].inflight
       /\ client'[c].err = client[c].err

FetcherKept(f) ==
    \/ fetcher'[f] = NoFetcher /\ f \notin LiveFetchers'
    \/ fetcher'[f].client = fetcher[f].client /\ fetcher'[f].url <= liveURL'
    \/ f \notin LiveFetchers /\ fetcher'[f].url <= liveURL'

JoinedNow(i, c) == c \in Clients /\ i \in Range(client'[c].refs)

HostKept(i) ==
    hostMap'[i].client \in {None, hostMap[i].client} \/ JoinedNow(i, hostMap'[i].client)

BlobKept(i, M) ==
    \/ blob'[i].fetcher = blob[i].fetcher
    \/ \E t \in M : blob'[i].fetcher = th[t].fid /\ th[t].img = i

\* Where a thread that moves has its fetcher and its client from.
Moved(t) ==
    /\ \/ th'[t].fid = None
       \/ th'[t].fid = th[t].fid /\ th'[t].img = th[t].img
       \/ th'[t].fid = blob[th'[t].img].fetcher
       \/ th'[t].fid \in Fetchers /\ JoinedNow(th'[t].img, fetcher'[th'[t].fid].client)
    /\ \/ th'[t].pc \in Early \cup {"addRef"}
       \/ /\ th[t].pc \notin Early \cup {"addRef"}
          /\ th'[t].client = th[t].client /\ th'[t].img = th[t].img
       \/ th'[t].client # None /\ th'[t].client = hostMap[th'[t].img].client
       \/ blob[th'[t].img].fetcher # None /\ th'[t].client = fetcher[blob[th'[t].img].fetcher].client
       \/ JoinedNow(th'[t].img, th'[t].client)

\* A thread that moves without taking part in an exchange.
Calm(t) ==
    /\ th[t].pc # "exchange"
    /\ th'[t].pc \notin {"exchange", "wait", "woken"}
    /\ th'[t].pc = "resend" => th'[t].fresh # {}

\* A reachable client keeps the images that joined it.
LEMMA JoinedKept ==
    ASSUME ObjectsInv, ObjectsInv', \A c \in Clients : ClientKept(c),
           NEW i, NEW c, Joined(i, c), c \in LiveClients'
    PROVE  JoinedNow(i, c)
BY ZenonT(60) DEF ClientKept, Joined, JoinedNow

\* So do the images that reach a client through a fetcher.
LEMMA JoinedByFetcher ==
    ASSUME ObjectsInv, ObjectsInv', \A c \in Clients : ClientKept(c),
           \A f \in Fetchers : FetcherKept(f),
           NEW i, NEW f \in Fetchers, f \in LiveFetchers, f \in LiveFetchers',
           Joined(i, fetcher[f].client)
    PROVE  JoinedNow(i, fetcher'[f].client)
<1>1. fetcher'[f].client = fetcher[f].client
  BY ZenonT(60) DEF FetcherKept
<1>2. f # None
  BY AccessAssumption, ZenonT(60)
<1>3. fetcher'[f].client \in LiveClients'
  BY <1>2, ZenonT(60) DEF LiveClients
<1>4. Joined(i, fetcher'[f].client)
  BY <1>1, ZenonT(60)
<1>5. QED
  BY <1>3, <1>4, JoinedKept, ZenonT(60)

\* A step that keeps what is reachable, in which the threads of M move.
Kept(M) ==
    /\ \A c \in Clients : ClientKept(c)
    /\ \A f \in Fetchers : FetcherKept(f)
    /\ \A i \in Images : HostKept(i)
    /\ \A i \in Images : BlobKept(i, M)
    /\ \A t \in Threads : t \notin M => th'[t] = th[t]
    /\ \A t \in M : Moved(t)

\* Such a step leaves every image with clients that it has joined.
LEMMA RefsStep ==
    ASSUME MapsInv, ObjectsInv, ThreadsInv, RefsInv, MapsInv', ObjectsInv', ThreadsInv',
           NEW M \in SUBSET Threads, Kept(M)
    PROVE  RefsInv'
<1> USE DEF Kept
<1>1. \A c \in Clients : IsInjective(client'[c].refs)
  <2>1. IsInjective(NoClient.refs)
    BY SMTT(60), Z3T(60) DEF NoClient, IsInjective
  <2>2. QED
    BY <2>1, ZenonT(60) DEF ClientKept
<1>2. ASSUME NEW i \in Images, hostMap'[i].client # None
      PROVE  JoinedNow(i, hostMap'[i].client)
  <2>1. CASE JoinedNow(i, hostMap'[i].client)
    BY <2>1, ZenonT(60)
  <2>2. CASE hostMap'[i].client = hostMap[i].client
    <3>1. Joined(i, hostMap[i].client)
      BY <1>2, <2>2, ZenonT(60) DEF RefsInv
    <3>2. hostMap'[i].client \in LiveClients'
      BY ZenonT(60) DEF LiveClients
    <3>3. QED
      BY <2>2, <3>1, <3>2, JoinedKept, ZenonT(60)
  <2>3. QED
    BY <1>2, <2>1, <2>2, ZenonT(60) DEF HostKept
<1>3. ASSUME NEW i \in Images, blob'[i].fetcher # None
      PROVE  JoinedNow(i, fetcher'[blob'[i].fetcher].client)
  <2>0. PICK f \in Fetchers : f = blob'[i].fetcher
    BY <1>3, ZenonT(60) DEF ObjectsInv, BlobStates
  <2>1. f \in LiveFetchers'
    BY <2>0, ZenonT(60) DEF LiveFetchers
  <2>2. f \in LiveFetchers /\ Joined(i, fetcher[f].client)
    <3>1. CASE f = blob[i].fetcher
      BY <1>3, <2>0, <3>1, ZenonT(60) DEF LiveFetchers, RefsInv
    <3>2. ASSUME NEW t \in M, f = th[t].fid, th[t].img = i
          PROVE  f \in LiveFetchers /\ Joined(i, fetcher[f].client)
      BY <1>3, <2>0, <3>2, ZenonT(60) DEF LiveFetchers, RefsInv
    <3>3. QED
      BY <2>0, <3>1, <3>2, ZenonT(60) DEF BlobKept
  <2>3. JoinedNow(i, fetcher'[f].client)
    BY <2>1, <2>2, JoinedByFetcher, ZenonT(60)
  <2>4. QED
    BY <2>0, <2>3, ZenonT(60)
<1>4. ASSUME NEW t \in Threads, th'[t].fid # None
      PROVE  JoinedNow(th'[t].img, fetcher'[th'[t].fid].client)
  <2>0. PICK f \in Fetchers : f = th'[t].fid
    BY <1>4, ZenonT(60) DEF ObjectsInv, ThreadStates
  <2>1. f \in LiveFetchers'
    BY <2>0, ZenonT(60) DEF LiveFetchers
  <2>2. CASE f = th[t].fid /\ th'[t].img = th[t].img
    <3>1. f \in LiveFetchers /\ Joined(th[t].img, fetcher[f].client)
      BY <1>4, <2>0, <2>2, ZenonT(60) DEF LiveFetchers, RefsInv
    <3>2. JoinedNow(th[t].img, fetcher'[f].client)
      BY <2>1, <3>1, JoinedByFetcher, ZenonT(60)
    <3>3. QED
      BY <2>0, <2>2, <3>2, ZenonT(60)
  <2>3. CASE th'[t].pc # "idle" /\ f = blob[th'[t].img].fetcher
    <3>0. PICK i \in Images : i = th'[t].img
      BY <2>3, ZenonT(60) DEF ThreadsInv, ThreadOK
    <3>1. f \in LiveFetchers /\ Joined(i, fetcher[f].client)
      BY <1>4, <2>0, <2>3, <3>0, ZenonT(60) DEF LiveFetchers, RefsInv
    <3>2. JoinedNow(i, fetcher'[f].client)
      BY <2>1, <3>1, JoinedByFetcher, ZenonT(60)
    <3>3. QED
      BY <2>0, <3>0, <3>2, ZenonT(60)
  <2>4. CASE JoinedNow(th'[t].img, fetcher'[th'[t].fid].client)
    BY <2>4, ZenonT(60)
  <2>5. th'[t].pc # "idle"
    BY <1>4, ZenonT(60) DEF ThreadsInv, ThreadOK, Early
  <2>6. QED
    BY <1>4, <2>0, <2>2, <2>3, <2>4, <2>5, ZenonT(60) DEF Moved
<1>5. ASSUME NEW t \in Threads, th'[t].pc \notin Early \cup {"addRef"}
      PROVE  JoinedNow(th'[t].img, th'[t].client)
  <2>0. PICK i \in Images, c \in Clients : i = th'[t].img /\ c = th'[t].client
    BY <1>5, ZenonT(60) DEF ThreadsInv, ThreadOK, Early
  <2>1. c \in LiveClients'
    BY <2>0, ZenonT(60) DEF LiveClients
  <2>2. SUFFICES Joined(i, c) \/ JoinedNow(th'[t].img, th'[t].client)
    BY <2>0, <2>1, JoinedKept, ZenonT(60)
  <2>3. CASE th[t].pc \notin Early \cup {"addRef"} /\ c = th[t].client /\ i = th[t].img
    BY <2>3, ZenonT(60) DEF RefsInv
  <2>4. CASE c # None /\ c = hostMap[i].client
    BY <2>4, ZenonT(60) DEF RefsInv
  <2>5. CASE blob[i].fetcher # None /\ c = fetcher[blob[i].fetcher].client
    BY <2>5, ZenonT(60) DEF RefsInv
  <2>6. QED
    BY <1>5, <2>0, <2>3, <2>4, <2>5, ZenonT(60) DEF Moved
<1>6. QED
  BY <1>1, <1>2, <1>3, <1>4, <1>5, ZenonT(60) DEF RefsInv, Joined, JoinedNow

\* A step that keeps what is reachable, and whose threads move without taking
\* part in an exchange, preserves the invariant.
LEMMA Frame ==
    ASSUME Inv, MapsInv', ObjectsInv', KeychainInv', config' = config, liveURL' >= liveURL,
           NEW M \in SUBSET Threads, Kept(M), \A t \in M : Calm(t) /\ ThreadOK(th[t])'
    PROVE  Inv'
<1>1. ThreadsInv'
  <2>1. ASSUME NEW t \in Threads, t \notin M
        PROVE  ThreadOK(th[t])'
    <3>1. th'[t] = th[t] /\ ThreadOK(th[t])
      BY <2>1, ZenonT(60) DEF Kept, Inv, ThreadsInv
    <3>2. th[t].url \in Nat /\ liveURL \in Nat /\ liveURL' \in Nat
      BY ZenonT(60) DEF Inv, ObjectsInv, MapsInv, ThreadStates
    <3>3. th[t].url <= liveURL'
      BY <3>1, <3>2, SMTT(60), Z3T(60) DEF ThreadOK
    <3>4. QED
      BY <3>1, <3>3, ZenonT(60) DEF ThreadOK
  <2>2. QED
    BY <2>1, ZenonT(60) DEF ThreadsInv
<1>2. RefsInv'
  BY <1>1, RefsStep, ZenonT(60) DEF Inv
<1>3. URLsInv'
  <2>1. NoFetcher.url = 0 /\ liveURL' \in Nat
    BY ZenonT(60) DEF NoFetcher, RegistryURL, MapsInv
  <2>2. QED
    BY <2>1, SMTT(60), Z3T(60) DEF URLsInv, Kept, FetcherKept
<1>4. \A t \in Threads, c \in Clients : Leads(t, c)' <=> Leads(t, c)
  BY ZenonT(60) DEF Kept, Calm, Leads
<1>5. \A t \in Threads, c \in Clients : Leads(t, c)' => c \in LiveClients'
  BY ZenonT(60) DEF Leads, LiveClients
<1>6. \A c \in Clients : client'[c].inflight <=> client[c].inflight
  <2>1. \A c \in Clients : c \notin LiveClients' => ~client[c].inflight
    BY <1>4, <1>5, ZenonT(60) DEF Inv, InflightInv
  <2>2. ~NoClient.inflight
    BY ZenonT(60) DEF NoClient
  <2>3. QED
    BY <2>1, <2>2, ZenonT(60) DEF Kept, ClientKept
<1>7. ASSUME NEW t \in Threads, th'[t].pc = "wait"
      PROVE  client'[th'[t].client].inflight
  <2>1. th'[t] = th[t]
    BY <1>7, ZenonT(60) DEF Kept, Calm
  <2>2. th[t].client \in Clients
    BY <1>7, <2>1, ZenonT(60) DEF Inv, ThreadsInv, ThreadOK, Early
  <2>3. QED
    BY <1>6, <1>7, <2>1, <2>2, ZenonT(60) DEF Inv, InflightInv
<1>8. InflightInv'
  BY <1>4, <1>6, <1>7, ZenonT(60) DEF Inv, InflightInv
<1>9. FreshInv'
  <2>1. ASSUME NEW t \in Threads, th'[t].pc = "resend"
        PROVE  th'[t].fresh # {}
    BY <2>1, ZenonT(60) DEF Kept, Calm, Inv, FreshInv
  <2>2. ASSUME NEW t \in Threads, th'[t].pc = "woken"
        PROVE  client'[th'[t].client].err \/ th'[t].fresh # {}
    <3>1. th'[t] = th[t]
      BY <2>2, ZenonT(60) DEF Kept, Calm
    <3>2. th[t].client \in Clients /\ th[t].client \in LiveClients'
      BY <2>2, <3>1, ZenonT(60) DEF Inv, ThreadsInv, ThreadOK, Early, LiveClients
    <3>3. client'[th[t].client].err = client[th[t].client].err
      BY <3>2, ZenonT(60) DEF Kept, ClientKept
    <3>4. QED
      BY <2>2, <3>1, <3>3, ZenonT(60) DEF Inv, FreshInv
  <2>3. QED
    BY <2>1, <2>2, ZenonT(60) DEF FreshInv
<1>10. QED
  BY <1>1, <1>2, <1>3, <1>8, <1>9, ZenonT(60) DEF Inv

-----------------------------------------------------------------------------
(* Steps of one thread.                                                    *)

\* The fetchers, with other URLs or modes.
Refreshed(fs) ==
    /\ fs \in [Fetchers -> FetcherStates]
    /\ \A f \in Fetchers : fs[f].client = fetcher[f].client /\ fs[f].url <= liveURL

\* The objects after a step, with or without the garbage.
LeavesObjects(fs) == (fetcher' = fs /\ client' = client) \/ Collect(fs, client)

\* Dropping what nobody reaches keeps the rest.
LEMMA Collected ==
    ASSUME Inv, liveURL' = liveURL, NEW fs, Refreshed(fs), LeavesObjects(fs)
    PROVE  /\ client' \in [Clients -> ClientStates]
           /\ fetcher' \in [Fetchers -> FetcherStates]
           /\ \A c \in Clients : ClientKept(c)
           /\ \A f \in Fetchers : FetcherKept(f)
<1>1. NoClient \in ClientStates /\ NoFetcher \in FetcherStates
  BY Unused, ZenonT(60) DEF Inv, MapsInv
<1>2. CASE fetcher' = fs /\ client' = client
  BY <1>2, ZenonT(60) DEF Refreshed, Inv, ObjectsInv, ClientKept, FetcherKept, RefsInv
<1>3. CASE Collect(fs, client)
  <2>1. /\ fetcher' = [f \in Fetchers |-> IF f \in LiveFetchers' THEN fs[f] ELSE NoFetcher]
        /\ client' = [c \in Clients |-> IF c \in LiveClients' THEN client[c] ELSE NoClient]
    BY <1>3, ZenonT(60) DEF Collect
  <2>2. /\ client' \in [Clients -> ClientStates]
        /\ fetcher' \in [Fetchers -> FetcherStates]
    BY <1>1, <2>1, ZenonT(60) DEF Inv, ObjectsInv, Refreshed
  <2>3. \A c \in Clients : ClientKept(c)
    BY <2>1, ZenonT(60) DEF ClientKept, Inv, RefsInv
  <2>4. \A f \in Fetchers : FetcherKept(f)
    BY <2>1, ZenonT(60) DEF FetcherKept, Refreshed
  <2>5. QED
    BY <2>2, <2>3, <2>4, ZenonT(60)
<1>4. QED
  BY <1>2, <1>3, ZenonT(60) DEF LeavesObjects

\* Fetchers that stay as they are have not lost a client or gained an unknown URL.
LEMMA SameFetchers ==
    ASSUME Inv
    PROVE  Refreshed(fetcher)
BY ZenonT(60) DEF Refreshed, Inv, ObjectsInv, URLsInv

\* Thread t goes on as s, without taking part in an exchange.
Goes(t, s) ==
    /\ th' = [th EXCEPT ![t] = s]
    /\ s \in ThreadStates
    /\ ThreadOK(s)
    /\ \/ s.fid = None
       \/ s.fid = th[t].fid /\ s.img = th[t].img
       \/ s.fid = blob[s.img].fetcher
    /\ \/ s.pc \in Early \cup {"addRef"}
       \/ /\ th[t].pc \notin Early \cup {"addRef"}
          /\ s.client = th[t].client /\ s.img = th[t].img
       \/ s.client # None /\ s.client = hostMap[s.img].client
       \/ blob[s.img].fetcher # None /\ s.client = fetcher[blob[s.img].fetcher].client
    /\ th[t].pc # "exchange"
    /\ s.pc \notin {"exchange", "wait", "woken"}
    /\ s.pc = "resend" => s.fresh # {}

\* A thread goes on, maps and blobs may change, and what nobody reaches any
\* more is collected.
LEMMA ThreadFrame ==
    ASSUME Inv, NEW t \in Threads, NEW s, Goes(t, s),
           UNCHANGED <<keychainVars, config, liveURL>>,
           MapsInv', blob' \in [Images -> BlobStates],
           \A i \in Images : HostKept(i) /\ BlobKept(i, {t}),
           NEW fs, Refreshed(fs), LeavesObjects(fs)
    PROVE  Inv'
<1>0. liveURL \in Nat /\ liveURL' = liveURL /\ liveURL' >= liveURL /\ config' = config
  BY SMTT(60), Z3T(60) DEF Inv, MapsInv
<1>1. /\ client' \in [Clients -> ClientStates]
      /\ fetcher' \in [Fetchers -> FetcherStates]
      /\ \A c \in Clients : ClientKept(c)
      /\ \A f \in Fetchers : FetcherKept(f)
  BY <1>0, Collected, ZenonT(60)
<1>2. th'[t] = s /\ \A u \in Threads : u # t => th'[u] = th[u]
  BY ZenonT(60) DEF Goes, Inv, ObjectsInv
<1>3. ObjectsInv'
  BY <1>0, <1>1, <1>2, SameTypes, ZenonT(60) DEF Inv, ObjectsInv, Goes
<1>4. KeychainInv'
  BY KeychainUnchanged, ZenonT(60) DEF Inv
<1>5. Moved(t)
  BY <1>2, ZenonT(60) DEF Goes, Moved
<1>6. Calm(t)
  BY <1>2, ZenonT(60) DEF Goes, Calm
<1>7. ThreadOK(th[t])'
  BY <1>0, <1>2, ZenonT(60) DEF Goes, ThreadOK
<1>8. Kept({t})
  BY <1>1, <1>2, <1>5, ZenonT(60) DEF Kept
<1>9. QED
  BY <1>0, <1>3, <1>4, <1>6, <1>7, <1>8, Frame, ZenonT(60)

\* The same when the maps and the blobs stay as they are.
LEMMA ThreadOnly ==
    ASSUME Inv, NEW t \in Threads, NEW s, Goes(t, s),
           UNCHANGED <<keychainVars, mapVars, blob, worldVars>>,
           UNCHANGED objectVars \/ Collect(fetcher, client)
    PROVE  Inv'
<1>0. Refreshed(fetcher) /\ LeavesObjects(fetcher)
  BY SameFetchers, ZenonT(60) DEF LeavesObjects, objectVars
<1>1. MapsInv' /\ blob' \in [Images -> BlobStates]
  BY ZenonT(60) DEF mapVars, worldVars, Inv, MapsInv, ObjectsInv
<1>2. \A i \in Images : HostKept(i) /\ BlobKept(i, {t})
  BY ZenonT(60) DEF mapVars, HostKept, BlobKept
<1>3. UNCHANGED <<keychainVars, config, liveURL>>
  BY ZenonT(60) DEF worldVars
<1>4. QED
  BY <1>0, <1>1, <1>2, <1>3, ThreadFrame, ZenonT(60)

\* A thread is done, or looks its sources up again.
LEMMA GoesIdle ==
    ASSUME Inv, NEW t \in Threads, th[t].pc # "exchange", Finish(t)
    PROVE  Goes(t, Idle)
<1>1. Idle \in ThreadStates /\ liveURL \in Nat
  BY Unused, ZenonT(60) DEF Inv, MapsInv
<1>0. 0 <= liveURL
  BY <1>1, SMTT(60), Z3T(60)
<1>2. ThreadOK(Idle)
  BY <1>0, ZenonT(60) DEF Idle, ThreadOK, Early, Asking, RegistryURL
<1>3. QED
  BY <1>1, <1>2, ZenonT(60) DEF Goes, Finish, Idle, Early

Sources(op, i) == [Idle EXCEPT !.op = op, !.img = i, !.pc = "hostsLoad"]

\* A thread begins an operation: it asks the hosts of its image for a client.
LEMMA GoesToSources ==
    ASSUME Inv, NEW t \in Threads, NEW i \in Images, NEW op \in {None, "read", "check", "resolve"},
           th[t].pc # "exchange", th' = [th EXCEPT ![t] = Sources(op, i)]
    PROVE  Goes(t, Sources(op, i))
<1>1. Sources(op, i) \in ThreadStates /\ liveURL \in Nat
  <2>1. Idle \in ThreadStates
    BY Unused, ZenonT(60) DEF Inv, MapsInv
  <2>2. "hostsLoad" \in PCs
    BY ZenonT(60) DEF PCs, Early
  <2>3. Sources(op, i) \in ThreadStates
    BY <2>1, <2>2, ZenonT(60) DEF Sources, ThreadStates
  <2>4. QED
    BY <2>3, ZenonT(60) DEF Inv, MapsInv
<1>2. ThreadOK(Sources(op, i))
  BY <1>1, SMTT(60), Z3T(60) DEF Idle, Sources, ThreadOK, Early, Asking, RegistryURL
<1>3. QED
  BY <1>1, <1>2, ZenonT(60) DEF Goes, Idle, Sources, Early

\* A thread with a client goes on with the same one, and the same fetcher.
LEMMA GoesOn ==
    ASSUME Inv, NEW t \in Threads, NEW s \in ThreadStates, th' = [th EXCEPT ![t] = s],
           s.img = th[t].img, s.client = th[t].client, s.fid = th[t].fid,
           th[t].pc \notin Early \cup {"addRef", "exchange"},
           s.pc \in {"send", "challenge", "resend", "failed", "fetch", "storeURL", "made"},
           s.purpose \in Purposes,
           s.purpose \in WithFetcher \/ s.pc \in {"fetch", "storeURL", "made"} => s.fid \in Fetchers,
           s.url <= liveURL, s.pc = "resend" => s.fresh # {}
    PROVE  Goes(t, s)
<1>1. s.client \in Clients /\ s.img \in Images
  BY ZenonT(60) DEF Inv, ThreadsInv, ThreadOK, Early
<1>2. ThreadOK(s)
  BY <1>1, ZenonT(60) DEF ThreadOK, Early
<1>3. QED
  BY <1>1, <1>2, ZenonT(60) DEF Goes, Early

\* What a thread in the middle of a request has.
LEMMA AskingFacts ==
    ASSUME Inv, NEW t \in Threads, th[t].pc \in Asking
    PROVE  /\ th[t] \in ThreadStates
           /\ th[t].pc \notin Early \cup {"addRef"}
           /\ th[t].client \in Clients /\ th[t].img \in Images
           /\ th[t].purpose \in Purposes /\ th[t].url <= liveURL
           /\ th[t].purpose \in WithFetcher => th[t].fid \in Fetchers
           /\ liveURL \in Nat
BY ZenonT(60) DEF Inv, ObjectsInv, MapsInv, ThreadsInv, ThreadOK, Asking, Early

\* The request is refused and has to be answered with a token.
LEMMA ChallengedStep ==
    ASSUME Inv, NEW t \in Threads, challenged(t)
    PROVE  Inv'
<1> DEFINE s == [th[t] EXCEPT !.pc = "challenge", !.fresh = {}]
<1>1. th[t].pc = "send" /\ th' = [th EXCEPT ![t] = s]
  BY ZenonT(60) DEF challenged, At
<1>2. th[t].pc \in Asking
  BY <1>1, ZenonT(60) DEF Asking
<1>3. s \in ThreadStates
  <2>1. th[t] \in ThreadStates
    BY <1>2, AskingFacts, ZenonT(60)
  <2>2. QED
    BY <2>1, ZenonT(60) DEF ThreadStates, PCs, Asking
<1>4. /\ s.img = th[t].img /\ s.client = th[t].client /\ s.fid = th[t].fid
      /\ s.pc = "challenge" /\ s.purpose = th[t].purpose /\ s.url = th[t].url
  BY <1>2, AskingFacts, ZenonT(60) DEF ThreadStates
<1> HIDE DEF s
<1>5. Goes(t, s)
  BY <1>1, <1>2, <1>3, <1>4, AskingFacts, GoesOn, ZenonT(60)
<1>6. UNCHANGED <<keychainVars, mapVars, objectVars, blob, worldVars>>
  BY ZenonT(60) DEF challenged
<1>7. QED
  BY <1>5, <1>6, ThreadOnly, ZenonT(60)

\* A waiter that was woken gives up or sends its request again.
LEMMA WokenStep ==
    ASSUME Inv, NEW t \in Threads, woken(t)
    PROVE  Inv'
<1> DEFINE p == IF client[th[t].client].err THEN "failed" ELSE "resend"
           s == [th[t] EXCEPT !.pc = p]
<1>1. th[t].pc = "woken" /\ th' = [th EXCEPT ![t] = s] /\ p \in {"failed", "resend"}
  BY ZenonT(60) DEF woken, At, Go
<1>2. th[t].pc \in Asking /\ th[t] \in ThreadStates
  BY <1>1, AskingFacts, ZenonT(60) DEF Asking
<1>3. p = "resend" => th[t].fresh # {}
  BY <1>1, ZenonT(60) DEF Inv, FreshInv
<1> HIDE DEF p
<1>4. s \in ThreadStates
  BY <1>1, <1>2, ZenonT(60) DEF ThreadStates, PCs, Asking
<1>5. /\ s.img = th[t].img /\ s.client = th[t].client /\ s.fid = th[t].fid
      /\ s.pc = p /\ s.purpose = th[t].purpose /\ s.url = th[t].url /\ s.fresh = th[t].fresh
  BY <1>2, ZenonT(60) DEF ThreadStates
<1> HIDE DEF s
<1>6. Goes(t, s)
  BY <1>1, <1>2, <1>3, <1>4, <1>5, AskingFacts, GoesOn, ZenonT(60)
<1>7. UNCHANGED <<keychainVars, mapVars, objectVars, blob, worldVars>>
  BY ZenonT(60) DEF woken
<1>8. QED
  BY <1>6, <1>7, ThreadOnly, ZenonT(60)

\* A mount that waits for another thread's exchange is given up.
LEMMA CancelledStep ==
    ASSUME Inv, NEW t \in Threads, cancelled(t)
    PROVE  Inv'
<1> DEFINE s == [th[t] EXCEPT !.pc = "failed"]
<1>1. th[t].pc = "wait" /\ th' = [th EXCEPT ![t] = s]
  BY ZenonT(60) DEF cancelled, At, Go
<1>2. th[t].pc \in Asking /\ th[t] \in ThreadStates
  BY <1>1, AskingFacts, ZenonT(60) DEF Asking
<1>3. s \in ThreadStates
  BY <1>2, ZenonT(60) DEF ThreadStates, PCs, Asking
<1>4. /\ s.img = th[t].img /\ s.client = th[t].client /\ s.fid = th[t].fid
      /\ s.pc = "failed" /\ s.purpose = th[t].purpose /\ s.url = th[t].url
  BY <1>2, ZenonT(60) DEF ThreadStates
<1> HIDE DEF s
<1>5. Goes(t, s)
  BY <1>1, <1>2, <1>3, <1>4, AskingFacts, GoesOn, ZenonT(60)
<1>6. UNCHANGED <<keychainVars, mapVars, objectVars, blob, worldVars>>
  BY ZenonT(60) DEF cancelled
<1>7. QED
  BY <1>5, <1>6, ThreadOnly, ZenonT(60)

\* A read takes the fetcher of its blob, with its client.
LEMMA ReadAtStep ==
    ASSUME Inv, NEW t \in Threads, NEW i \in Images, ReadAt(t, i)
    PROVE  Inv'
<1>1. PICK f \in Fetchers : f = blob[i].fetcher /\ f # None
  BY AccessAssumption, ZenonT(60) DEF ReadAt, Inv, ObjectsInv, BlobStates
<1>2. PICK c \in Clients : c = fetcher[f].client
  BY <1>1, ZenonT(60) DEF Inv, RefsInv, Joined
<1> DEFINE s == [th[t] EXCEPT !.op = "read", !.img = i, !.fid = f, !.client = c,
                              !.retry = TRUE, !.pc = "fetch"]
<1>3. th[t].pc = "idle" /\ th' = [th EXCEPT ![t] = s]
  BY <1>1, <1>2, ZenonT(60) DEF ReadAt, At
<1>4. th[t] \in ThreadStates /\ th[t].url <= liveURL
  BY ZenonT(60) DEF Inv, ObjectsInv, ThreadsInv, ThreadOK
<1>5. s \in ThreadStates
  BY <1>4, ZenonT(60) DEF ThreadStates, PCs
<1>6. s.img = i /\ s.client = c /\ s.fid = f /\ s.pc = "fetch" /\ s.url = th[t].url
  BY <1>4, ZenonT(60) DEF ThreadStates
<1> HIDE DEF s
<1>7. ThreadOK(s)
  BY <1>4, <1>6, ZenonT(60) DEF ThreadOK, Early, Asking
<1>8. Goes(t, s)
  BY <1>1, <1>2, <1>3, <1>5, <1>6, <1>7, ZenonT(60) DEF Goes, Early
<1>9. UNCHANGED <<keychainVars, mapVars, objectVars, blob, worldVars>>
  BY ZenonT(60) DEF ReadAt
<1>10. QED
  BY <1>8, <1>9, ThreadOnly, ZenonT(60)

\* A fetch reads the URL and the mode of its fetcher.
LEMMA FetchStep ==
    ASSUME Inv, NEW t \in Threads, fetch(t)
    PROVE  Inv'
<1>1. PICK f \in Fetchers : f = th[t].fid
  BY ZenonT(60) DEF fetch, At, Inv, ThreadsInv, ThreadOK
<1>2. /\ fetcher[f].url \in Nat /\ fetcher[f].single \in BOOLEAN /\ fetcher[f].url <= liveURL
      /\ fetcher[f].host \in Hosts
  BY ZenonT(60) DEF Inv, ObjectsInv, FetcherStates, URLsInv
<1> DEFINE s == [th[t] EXCEPT !.host = fetcher[f].host,
                              !.url = fetcher[f].url, !.single = fetcher[f].single,
                              !.purpose = "fetch", !.pc = "send"]
<1>3. th[t].pc = "fetch" /\ th' = [th EXCEPT ![t] = s]
  BY <1>1, ZenonT(60) DEF fetch, At
<1>4. th[t] \in ThreadStates
  BY ZenonT(60) DEF Inv, ObjectsInv
<1>5. s \in ThreadStates
  BY <1>2, <1>4, ZenonT(60) DEF ThreadStates, PCs, Asking, Purposes, WithFetcher
<1>6. /\ s.img = th[t].img /\ s.client = th[t].client /\ s.fid = f
      /\ s.pc = "send" /\ s.purpose = "fetch" /\ s.url = fetcher[f].url
  BY <1>1, <1>4, ZenonT(60) DEF ThreadStates
<1> HIDE DEF s
<1>7. th[t].pc \notin Early \cup {"addRef", "exchange"} /\ s.purpose \in Purposes
  BY <1>3, <1>6, ZenonT(60) DEF Early, Purposes, WithFetcher
<1>8. Goes(t, s)
  BY <1>1, <1>2, <1>3, <1>5, <1>6, <1>7, GoesOn, ZenonT(60)
<1>9. UNCHANGED <<keychainVars, mapVars, objectVars, blob, worldVars>>
  BY ZenonT(60) DEF fetch
<1>10. QED
  BY <1>8, <1>9, ThreadOnly, ZenonT(60)

\* Check asks for a byte with the blob's fetcher, or refreshes a closed blob.
LEMMA CheckStep ==
    ASSUME Inv, NEW t \in Threads, NEW i \in Images, Check(t, i)
    PROVE  Inv'
<1>0. UNCHANGED <<keychainVars, mapVars, objectVars, blob, worldVars>> /\ th[t].pc = "idle"
  BY ZenonT(60) DEF Check, At
<1>1. CASE blob[i].closed
  <2>1. th' = [th EXCEPT ![t] = Sources("check", i)]
    BY <1>1, ZenonT(60) DEF Check, Sources
  <2>2. Goes(t, Sources("check", i))
    BY <1>0, <2>1, GoesToSources, ZenonT(60)
  <2>3. QED
    BY <1>0, <2>2, ThreadOnly, ZenonT(60)
<1>2. CASE ~blob[i].closed
  <2>1. PICK f \in Fetchers : f = blob[i].fetcher /\ f # None
    BY AccessAssumption, ZenonT(60) DEF Check, Inv, ObjectsInv, BlobStates
  <2>2. PICK c \in Clients : c = fetcher[f].client
    BY <2>1, ZenonT(60) DEF Inv, RefsInv, Joined
  <2>3. PICK url \in Nat, h \in Hosts : url = fetcher[f].url /\ url <= liveURL /\ h = fetcher[f].host
    BY ZenonT(60) DEF Inv, ObjectsInv, FetcherStates, URLsInv
  <2> DEFINE s == [Idle EXCEPT !.op = "check", !.img = i, !.pc = "send", !.purpose = "check",
                               !.fid = f, !.client = c, !.host = h, !.url = url]
  <2>4. th' = [th EXCEPT ![t] = s]
    BY <1>2, <2>1, <2>2, <2>3, ZenonT(60) DEF Check
  <2>5. Idle \in ThreadStates
    BY Unused, ZenonT(60) DEF Inv, MapsInv
  <2>6. s \in ThreadStates
    BY <2>5, ZenonT(60) DEF ThreadStates, PCs, Asking, Purposes, WithFetcher
  <2>7. /\ s.img = i /\ s.client = c /\ s.fid = f /\ s.pc = "send"
        /\ s.purpose = "check" /\ s.url = url
    BY <2>5, ZenonT(60) DEF ThreadStates
  <2> HIDE DEF s
  <2>8. ThreadOK(s)
    BY <2>3, <2>7, ZenonT(60) DEF ThreadOK, Early, Asking, Purposes, WithFetcher
  <2>9. Goes(t, s)
    BY <1>0, <2>1, <2>2, <2>4, <2>6, <2>7, <2>8, ZenonT(60) DEF Goes, Early
  <2>10. QED
    BY <1>0, <2>9, ThreadOnly, ZenonT(60)
<1>3. QED
  BY <1>1, <1>2, ZenonT(60)

\* A thread begins Resolve.
LEMMA ResolveStep ==
    ASSUME Inv, NEW t \in Threads, NEW i \in Images, Resolve(t, i)
    PROVE  Inv'
<1>1. UNCHANGED <<keychainVars, mapVars, objectVars, blob, worldVars>> /\ th[t].pc = "idle"
  BY ZenonT(60) DEF Resolve, At
<1>2. th' = [th EXCEPT ![t] = Sources("resolve", i)]
  BY ZenonT(60) DEF Resolve, Sources
<1>3. Goes(t, Sources("resolve", i))
  BY <1>1, <1>2, GoesToSources, ZenonT(60)
<1>4. QED
  BY <1>1, <1>3, ThreadOnly, ZenonT(60)

\* A thread without a client goes on without one.
LEMMA GoesEarly ==
    ASSUME Inv, NEW t \in Threads, NEW p \in {"hostsDrop", "authKey", "authDrop", "newClient"},
           NEW k \in Keys \cup {None}, p = "authDrop" \/ (p = "newClient" /\ config.sharing) => k \in Keys,
           th[t].pc \in Early, th[t].pc # "idle",
           th' = [th EXCEPT ![t] = [th[t] EXCEPT !.key = k, !.client = None, !.pc = p]]
    PROVE  Goes(t, [th[t] EXCEPT !.key = k, !.client = None, !.pc = p])
<1> DEFINE s == [th[t] EXCEPT !.key = k, !.client = None, !.pc = p]
<1>1. th[t] \in ThreadStates /\ th[t].url <= liveURL /\ th[t].fid = None /\ th[t].img \in Images
  BY ZenonT(60) DEF Inv, ObjectsInv, ThreadsInv, ThreadOK
<1>2. s \in ThreadStates
  <2>1. p \in PCs
    BY ZenonT(60) DEF PCs, Early
  <2>2. QED
    BY <1>1, <2>1, ZenonT(60) DEF ThreadStates
<1>3. /\ s.img = th[t].img /\ s.client = None /\ s.fid = None
      /\ s.pc = p /\ s.url = th[t].url /\ s.key = k
  BY <1>1, ZenonT(60) DEF ThreadStates
<1>4. th' = [th EXCEPT ![t] = s] /\ th[t].pc # "exchange"
  BY ZenonT(60) DEF Early
<1> HIDE DEF s
<1>5. ThreadOK(s)
  BY <1>1, <1>3, ZenonT(60) DEF ThreadOK, Early, Asking
<1>6. Goes(t, s)
  BY <1>2, <1>3, <1>4, <1>5, ZenonT(60) DEF Goes, Early
<1>7. QED
  BY <1>6, ZenonT(60) DEF s

\* The same when only the pc changes.
LEMMA GoesEarlyOn ==
    ASSUME Inv, NEW t \in Threads, NEW p \in {"hostsDrop", "authKey", "authDrop", "newClient"},
           p = "authDrop" \/ (p = "newClient" /\ config.sharing) => th[t].key \in Keys,
           th[t].pc \in Early, th[t].pc # "idle", Go(t, p)
    PROVE  \E s : Goes(t, s)
<1>1. th[t] \in ThreadStates /\ th[t].client = None
  BY ZenonT(60) DEF Inv, ObjectsInv, ThreadsInv, ThreadOK
<1>2. PICK k \in Keys \cup {None} : k = th[t].key
  BY <1>1, ZenonT(60) DEF ThreadStates
<1>3. [th[t] EXCEPT !.pc = p] = [th[t] EXCEPT !.key = k, !.client = None, !.pc = p]
  BY <1>1, <1>2, ZenonT(60) DEF ThreadStates
<1>4. th' = [th EXCEPT ![t] = [th[t] EXCEPT !.key = k, !.client = None, !.pc = p]]
  BY <1>3, ZenonT(60) DEF Go
<1>5. Goes(t, [th[t] EXCEPT !.key = k, !.client = None, !.pc = p])
  BY <1>2, <1>4, GoesEarly, ZenonT(60)
<1>6. QED
  BY <1>5, ZenonT(60)

\* The hosts of the image are known: the first request is sent, or a blob that
\* was closed meanwhile is left alone.
LEMMA HostsFields ==
    ASSUME Inv, NEW t \in Threads, th[t].img \in Images, NEW c \in Clients,
           WithHosts(t, c), ~Finish(t)
    PROVE  \E s \in ThreadStates :
              /\ th' = [th EXCEPT ![t] = s] /\ ThreadOK(s)
              /\ s.img = th[t].img /\ s.fid = th[t].fid /\ s.client = c /\ s.pc = "send"
<1> DEFINE s == [th[t] EXCEPT !.client = c, !.host = 1, !.purpose = "redirect", !.key = None,
                              !.url = RegistryURL, !.pc = "send"]
<1>1. th' = [th EXCEPT ![t] = s]
  BY ZenonT(60) DEF WithHosts
<1>2. th[t] \in ThreadStates /\ liveURL \in Nat /\ 1 \in Hosts
  BY FirstHost, ZenonT(60) DEF Inv, ObjectsInv, MapsInv
<1>3. s \in ThreadStates
  BY <1>2, ZenonT(60) DEF ThreadStates, PCs, Asking, Purposes, RegistryURL
<1>4. /\ s.img = th[t].img /\ s.client = c /\ s.fid = th[t].fid /\ s.pc = "send"
      /\ s.purpose = "redirect" /\ s.url = 0
  BY <1>2, ZenonT(60) DEF ThreadStates, RegistryURL
<1> HIDE DEF s
<1>5. ThreadOK(s)
  BY <1>2, <1>4, SMTT(60), Z3T(60) DEF ThreadOK, Early, Asking, Purposes, WithFetcher
<1>6. QED
  BY <1>1, <1>3, <1>4, <1>5, ZenonT(60)

\* The hosts are in the cache, expired or unknown.
LEMMA HostsLoadStep ==
    ASSUME Inv, NEW t \in Threads, hostsLoad(t)
    PROVE  Inv'
<1>1. th[t].pc = "hostsLoad" /\ UNCHANGED <<keychainVars, mapVars, objectVars, blob, worldVars>>
  BY ZenonT(60) DEF hostsLoad, At
<1>2. th[t] \in ThreadStates /\ th[t].img \in Images /\ th[t].client = None
  BY <1>1, ZenonT(60) DEF Inv, ObjectsInv, ThreadsInv, ThreadOK, Early
<1> DEFINE e == hostMap[th[t].img]
<1>3. e.client \in Clients \cup {None}
  BY <1>2, ZenonT(60) DEF Inv, MapsInv, Entries
<1>4. SUFFICES \E s : Goes(t, s)
  BY <1>1, ThreadOnly, ZenonT(60)
<1>5. CASE e.client # None /\ ~e.old
  <2>1. WithHosts(t, e.client)
    BY <1>5, ZenonT(60) DEF hostsLoad
  <2>2. CASE Finish(t)
    BY <1>1, <2>2, GoesIdle, ZenonT(60)
  <2>3. CASE ~Finish(t)
    <3>1. PICK s \in ThreadStates :
             /\ th' = [th EXCEPT ![t] = s] /\ ThreadOK(s)
             /\ s.img = th[t].img /\ s.fid = th[t].fid /\ s.client = e.client /\ s.pc = "send"
      BY <1>2, <1>3, <1>5, <2>1, <2>3, HostsFields, ZenonT(60)
    <3>2. Goes(t, s)
      BY <1>1, <1>5, <3>1, ZenonT(60) DEF Goes
    <3>3. QED
      BY <3>2, ZenonT(60)
  <2>4. QED
    BY <2>2, <2>3, ZenonT(60)
<1>6. CASE ~(e.client # None /\ ~e.old)
  <2>1. PICK p \in {"hostsDrop", "authKey"} : Go(t, p)
    BY <1>6, ZenonT(60) DEF hostsLoad
  <2>2. th[t].pc \in Early /\ p # "authDrop" /\ p # "newClient"
    BY <1>1, <2>1, ZenonT(60) DEF Early
  <2>3. QED
    BY <1>1, <2>1, <2>2, GoesEarlyOn, ZenonT(60)
<1>7. QED
  BY <1>5, <1>6, ZenonT(60)

\* What the credential providers may answer.
LEMMA KnownCreds ==
    ASSUME KeychainInv, NEW i \in Images
    PROVE  multiCredsFuncs(i) \subseteq Creds \cup {NoCred, BadAuth}
BY KeychainAssumption, SMTT(60), Z3T(60) DEF KeychainInv, KeychainTypeOK, multiCredsFuncs, kubeCredentials

\* The key under which a client may be shared, and the client found there.
LEMMA AuthClientKeyStep ==
    ASSUME Inv, NEW t \in Threads, authClientKey(t)
    PROVE  Inv'
<1>1. th[t].pc = "authKey" /\ UNCHANGED <<keychainVars, mapVars, objectVars, blob, worldVars>>
  BY ZenonT(60) DEF authClientKey, At
<1>2. /\ th[t] \in ThreadStates /\ th[t].img \in Images /\ th[t].client = None
      /\ th[t].fid = None /\ th[t].url <= liveURL /\ th[t].pc \in Early
  BY <1>1, ZenonT(60) DEF Inv, ObjectsInv, ThreadsInv, ThreadOK, Early
<1>3. SUFFICES \E s : Goes(t, s)
  BY <1>1, ThreadOnly, ZenonT(60)
<1>4. CASE ~config.sharing
  BY <1>1, <1>2, <1>4, GoesEarlyOn, ZenonT(60) DEF authClientKey
<1>5. CASE config.sharing
  <2>1. PICK cred \in multiCredsFuncs(th[t].img) :
          LET k == IF cred = BadAuth THEN th[t].img ELSE cred IN
          th' = [th EXCEPT ![t].key = k,
                           ![t].client = IF authMap[k].old THEN None ELSE authMap[k].client,
                           ![t].pc = IF authMap[k].old THEN "authDrop"
                                     ELSE IF authMap[k].client = None THEN "newClient"
                                     ELSE "addRef"]
    BY <1>5, ZenonT(60) DEF authClientKey
  <2>2. PICK k \in Keys : k = IF cred = BadAuth THEN th[t].img ELSE cred
    <3>1. cred \in Creds \cup {NoCred, BadAuth}
      BY <1>2, KnownCreds, ZenonT(60) DEF Inv
    <3>2. QED
      BY <1>2, <3>1, ZenonT(60) DEF Keys
  <2>3. authMap[k].client \in Clients \cup {None} /\ authMap[k].old \in BOOLEAN
    BY ZenonT(60) DEF Inv, MapsInv, Entries
  <2>4. CASE authMap[k].old \/ authMap[k].client = None
    <3>1. PICK p \in {"authDrop", "newClient"} :
             th' = [th EXCEPT ![t] = [th[t] EXCEPT !.key = k, !.client = None, !.pc = p]]
      <4>1. CASE authMap[k].old
        <5>1. th' = [th EXCEPT ![t] = [th[t] EXCEPT !.key = k, !.client = None, !.pc = "authDrop"]]
          BY <2>1, <2>2, <4>1, ZenonT(60)
        <5> QED  BY <5>1, ZenonT(60)
      <4>2. CASE ~authMap[k].old /\ authMap[k].client = None
        <5>1. th' = [th EXCEPT ![t] = [th[t] EXCEPT !.key = k, !.client = None, !.pc = "newClient"]]
          BY <2>1, <2>2, <4>2, ZenonT(60)
        <5> QED  BY <5>1, ZenonT(60)
      <4> QED  BY <2>4, <4>1, <4>2, ZenonT(60)
    <3>2. Goes(t, [th[t] EXCEPT !.key = k, !.client = None, !.pc = p])
      BY <1>1, <1>2, <3>1, GoesEarly, ZenonT(60)
    <3>3. QED
      BY <3>2, ZenonT(60)
  <2>5. CASE ~authMap[k].old /\ authMap[k].client # None
    <3>1. PICK c \in Clients : c = authMap[k].client
      BY <2>3, <2>5, ZenonT(60)
    <3> DEFINE s == [th[t] EXCEPT !.key = k, !.client = c, !.pc = "addRef"]
    <3>2. th' = [th EXCEPT ![t] = s]
      BY <2>1, <2>2, <2>5, <3>1, ZenonT(60)
    <3>3. s \in ThreadStates
      BY <1>2, ZenonT(60) DEF ThreadStates, PCs
    <3>4. /\ s.img = th[t].img /\ s.client = c /\ s.fid = th[t].fid /\ s.pc = "addRef"
          /\ s.url = th[t].url
      BY <1>2, ZenonT(60) DEF ThreadStates
    <3> HIDE DEF s
    <3>5. ThreadOK(s)
      BY <1>2, <3>4, ZenonT(60) DEF ThreadOK, Early, Asking
    <3>6. Goes(t, s)
      BY <1>1, <1>2, <3>2, <3>3, <3>4, <3>5, ZenonT(60) DEF Goes
    <3>7. QED
      BY <3>6, ZenonT(60)
  <2>6. QED
    BY <2>4, <2>5, ZenonT(60)
<1>6. QED
  BY <1>4, <1>5, ZenonT(60)

\* An expired entry is dropped from one of the two maps.
LEMMA DropStep ==
    ASSUME Inv, NEW t \in Threads, hostsDrop(t) \/ authDrop(t)
    PROVE  Inv'
<1>1. \E s : Goes(t, s)
  <2>1. CASE hostsDrop(t)
    <3>1. th[t].pc \in Early /\ th[t].pc # "idle" /\ Go(t, "authKey")
      BY <2>1, ZenonT(60) DEF hostsDrop, At, Early
    <3>2. QED
      BY <3>1, GoesEarlyOn, ZenonT(60)
  <2>2. CASE authDrop(t)
    <3>1. th[t].pc = "authDrop" /\ th[t].pc \in Early /\ Go(t, "newClient")
      BY <2>2, ZenonT(60) DEF authDrop, At, Early
    <3>2. th[t].key \in Keys
      BY <3>1, ZenonT(60) DEF Inv, ThreadsInv, ThreadOK
    <3>3. QED
      BY <3>1, <3>2, GoesEarlyOn, ZenonT(60)
  <2>3. QED
    BY <2>1, <2>2, ZenonT(60)
<1>2. NoEntry \in Entries /\ NoEntry.client = None
  BY ZenonT(60) DEF NoEntry, Entries
<1>3. /\ UNCHANGED <<keychainVars, config, sweeper, liveURL, events, blob>>
      /\ Collect(fetcher, client)
      /\ hostMap' \in [Images -> Entries] /\ authMap' \in [Keys -> Entries]
      /\ \A i \in Images : hostMap'[i].client \in {None, hostMap[i].client}
  BY <1>2, ZenonT(60) DEF hostsDrop, authDrop, worldVars, Inv, MapsInv
<1>4. MapsInv' /\ blob' \in [Images -> BlobStates]
  BY <1>3, ZenonT(60) DEF Inv, MapsInv, ObjectsInv
<1>5. \A i \in Images : HostKept(i) /\ BlobKept(i, {t})
  BY <1>3, ZenonT(60) DEF HostKept, BlobKept
<1>6. Refreshed(fetcher) /\ LeavesObjects(fetcher)
  BY <1>3, SameFetchers, ZenonT(60) DEF LeavesObjects
<1>7. QED
  BY <1>1, <1>3, <1>4, <1>5, <1>6, ThreadFrame, ZenonT(60)

\* A new client, stored for sharing unless another thread was faster.
LEMMA NewAuthClientStep ==
    ASSUME Inv, NEW t \in Threads, newAuthClient(t)
    PROVE  Inv'
<1>1. /\ th[t] \in ThreadStates /\ th[t].img \in Images /\ th[t].fid = None
      /\ th[t].url <= liveURL /\ th[t].pc \in Early /\ th[t].pc # "exchange"
      /\ config.sharing => th[t].key \in Keys
  BY ZenonT(60) DEF newAuthClient, At, Inv, ObjectsInv, ThreadsInv, ThreadOK, Early
<1> DEFINE lost == config.sharing /\ authMap[th[t].key].client # None
<1>2. PICK c \in Clients : c = IF lost THEN authMap[th[t].key].client ELSE NewClient
  <2>1. CASE lost
    BY <1>1, <2>1, ZenonT(60) DEF Inv, MapsInv, Entries
  <2>2. CASE ~lost
    <3>1. Clients \ LiveClients # {}
      BY <2>2, ZenonT(60) DEF newAuthClient
    <3>2. NewClient \in Clients
      BY <3>1, ZenonT(60) DEF NewClient
    <3>3. QED
      BY <2>2, <3>2, ZenonT(60)
  <2>3. QED
    BY <2>1, <2>2, ZenonT(60)
<1> DEFINE s == [th[t] EXCEPT !.pc = "addRef", !.client = c]
<1>3. th' = [th EXCEPT ![t] = s]
  BY <1>2, ZenonT(60) DEF newAuthClient
<1>4. s \in ThreadStates
  BY <1>1, ZenonT(60) DEF ThreadStates, PCs
<1>5. /\ s.img = th[t].img /\ s.client = c /\ s.fid = th[t].fid /\ s.pc = "addRef"
      /\ s.url = th[t].url
  BY <1>1, ZenonT(60) DEF ThreadStates
<1>6. /\ UNCHANGED <<keychainVars, hostMap, objectVars, blob, worldVars>>
      /\ authMap' = IF config.sharing /\ ~lost
                    THEN [authMap EXCEPT ![th[t].key] = [client |-> c, old |-> FALSE]] ELSE authMap
  BY <1>2, ZenonT(60) DEF newAuthClient
<1> HIDE DEF s, lost
<1>7. authMap' \in [Keys -> Entries]
  <2>1. [client |-> c, old |-> FALSE] \in Entries
    BY ZenonT(60) DEF Entries
  <2>2. QED
    BY <1>1, <1>6, <2>1, ZenonT(60) DEF Inv, MapsInv
<1>8. ThreadOK(s)
  BY <1>1, <1>5, ZenonT(60) DEF ThreadOK, Early, Asking
<1>9. Goes(t, s)
  BY <1>1, <1>3, <1>4, <1>5, <1>8, ZenonT(60) DEF Goes
<1>10. MapsInv' /\ blob' \in [Images -> BlobStates]
  BY <1>6, <1>7, ZenonT(60) DEF worldVars, Inv, MapsInv, ObjectsInv
<1>11. \A i \in Images : HostKept(i) /\ BlobKept(i, {t})
  BY <1>6, ZenonT(60) DEF HostKept, BlobKept
<1>12. Refreshed(fetcher) /\ LeavesObjects(fetcher)
  BY <1>6, SameFetchers, ZenonT(60) DEF LeavesObjects, objectVars
<1>13. UNCHANGED <<keychainVars, config, liveURL>>
  BY <1>6, ZenonT(60) DEF worldVars
<1>14. QED
  BY <1>9, <1>10, <1>11, <1>12, <1>13, ThreadFrame, ZenonT(60)

\* An image joins a client, or has joined it before.
LEMMA JoinFacts ==
    ASSUME NEW S, NEW r \in Seq(S), IsInjective(r), NEW i \in S, i \notin Range(r)
    PROVE  /\ Append(r, i) \in Seq(S) /\ IsInjective(Append(r, i))
           /\ Range(Append(r, i)) = Range(r) \cup {i}
<1> DEFINE a == Append(r, i)
<1>1. /\ a \in Seq(S) /\ Len(a) = Len(r) + 1 /\ Len(r) \in Nat
      /\ \A j \in 1 .. Len(r) : a[j] = r[j]
      /\ a[Len(r) + 1] = i
      /\ DOMAIN a = 1 .. Len(r) + 1 /\ DOMAIN r = 1 .. Len(r)
  BY SMTT(60), Z3T(60)
<1> HIDE DEF a
<1>2. \A j \in 1 .. Len(r) : r[j] # i
  BY <1>1, ZenonT(60) DEF Range
<1>3. IsInjective(a)
  BY <1>1, <1>2, SMTT(60), Z3T(60) DEF IsInjective
<1>4. Range(a) = Range(r) \cup {i}
  <2>1. \A j \in DOMAIN a : a[j] \in Range(r) \cup {i}
    BY <1>1, SMTT(60), Z3T(60) DEF Range
  <2>2. \A x \in Range(r) \cup {i} : \E j \in DOMAIN a : a[j] = x
    BY <1>1, SMTT(60), Z3T(60) DEF Range
  <2>3. QED
    BY <2>1, <2>2, ZenonT(60) DEF Range
<1>5. QED
  BY <1>1, <1>3, <1>4, ZenonT(60) DEF a

\* A cached AuthClient is shared: the image joins it and its hosts are cached.
LEMMA AddRefStep ==
    ASSUME Inv, NEW t \in Threads, addRef(t)
    PROVE  Inv'
<1>1. /\ th[t].pc = "addRef" /\ WithHosts(t, th[t].client)
      /\ UNCHANGED <<keychainVars, authMap, blob, worldVars>>
  BY ZenonT(60) DEF addRef, At
<1>2. PICK i \in Images, c \in Clients : i = th[t].img /\ c = th[t].client
  BY <1>1, ZenonT(60) DEF Inv, ThreadsInv, ThreadOK, Early
<1>3. PICK cs : /\ cs \in [Clients -> ClientStates]
                /\ \A d \in Clients :
                      /\ Range(client[d].refs) \subseteq Range(cs[d].refs)
                      /\ IsInjective(cs[d].refs)
                      /\ cs[d].inflight = client[d].inflight /\ cs[d].err = client[d].err
                /\ i \in Range(cs[c].refs)
                /\ Collect(fetcher, cs)
  <2>1. client[c] \in ClientStates /\ IsInjective(client[c].refs) /\ client[c].refs \in Seq(Images)
    BY ZenonT(60) DEF Inv, ObjectsInv, RefsInv, ClientStates
  <2>2. CASE i \in Range(client[c].refs)
    <3>1. Collect(fetcher, client)
      BY <1>2, <2>2, ZenonT(60) DEF addRef
    <3>2. QED
      BY <2>2, <3>1, ZenonT(60) DEF Inv, ObjectsInv, RefsInv
  <2>3. CASE i \notin Range(client[c].refs)
    <3> DEFINE r == Append(client[c].refs, i)
               d == [client[c] EXCEPT !.refs = r]
               cs == [client EXCEPT ![c] = d]
    <3>1. Collect(fetcher, cs)
      BY <1>2, <2>3, ZenonT(60) DEF addRef
    <3>2. /\ r \in Seq(Images) /\ IsInjective(r) /\ Range(r) = Range(client[c].refs) \cup {i}
      BY <2>1, <2>3, JoinFacts, SMTT(60), Z3T(60)
    <3> HIDE DEF r
    <3>3. /\ d \in ClientStates /\ d.refs = r
          /\ d.inflight = client[c].inflight /\ d.err = client[c].err
      BY <2>1, <3>2, ZenonT(60) DEF ClientStates
    <3> HIDE DEF d
    <3>4. cs \in [Clients -> ClientStates] /\ cs[c] = d /\ \A x \in Clients : x # c => cs[x] = client[x]
      BY <3>3, ZenonT(60) DEF Inv, ObjectsInv
    <3> HIDE DEF cs
    <3>5. \A x \in Clients :
             /\ Range(client[x].refs) \subseteq Range(cs[x].refs)
             /\ IsInjective(cs[x].refs)
             /\ cs[x].inflight = client[x].inflight /\ cs[x].err = client[x].err
      BY <3>2, <3>3, <3>4, ZenonT(60) DEF Inv, RefsInv
    <3>6. QED
      BY <3>1, <3>2, <3>3, <3>4, <3>5, ZenonT(60)
  <2>4. QED
    BY <2>2, <2>3, ZenonT(60)
<1>4. /\ fetcher' = [f \in Fetchers |-> IF f \in LiveFetchers' THEN fetcher[f] ELSE NoFetcher]
      /\ client' = [d \in Clients |-> IF d \in LiveClients' THEN cs[d] ELSE NoClient]
  BY <1>3, ZenonT(60) DEF Collect
<1>5. hostMap' = [hostMap EXCEPT ![i] = [client |-> c, old |-> FALSE]]
  BY <1>2, ZenonT(60) DEF addRef
<1>6. hostMap' \in [Images -> Entries] /\ hostMap'[i].client = c
      /\ \A j \in Images : j # i => hostMap'[j] = hostMap[j]
  BY <1>5, ZenonT(60) DEF Inv, MapsInv, Entries
<1>7. JoinedNow(i, c)
  <2>1. c \in LiveClients'
    BY <1>6, ZenonT(60) DEF LiveClients
  <2>2. QED
    BY <1>3, <1>4, <2>1, ZenonT(60) DEF JoinedNow
<1>8. /\ client' \in [Clients -> ClientStates] /\ fetcher' \in [Fetchers -> FetcherStates]
      /\ \A d \in Clients : ClientKept(d)
      /\ \A f \in Fetchers : FetcherKept(f)
  <2>1. NoClient \in ClientStates /\ NoFetcher \in FetcherStates
    BY Unused, ZenonT(60) DEF Inv, MapsInv
  <2>2. \A f \in Fetchers : fetcher[f].url <= liveURL'
    BY <1>1, ZenonT(60) DEF worldVars, Inv, URLsInv
  <2>3. /\ client' \in [Clients -> ClientStates] /\ fetcher' \in [Fetchers -> FetcherStates]
    BY <1>3, <1>4, <2>1, ZenonT(60) DEF Inv, ObjectsInv
  <2>4. \A d \in Clients : ClientKept(d)
    BY <1>3, <1>4, ZenonT(60) DEF ClientKept
  <2>5. \A f \in Fetchers : FetcherKept(f)
    BY <1>4, <2>2, ZenonT(60) DEF FetcherKept
  <2>6. QED
    BY <2>3, <2>4, <2>5, ZenonT(60)
<1>9. PICK s \in ThreadStates :
        /\ th' = [th EXCEPT ![t] = s] /\ ThreadOK(s)
        /\ s = Idle \/ (s.img = i /\ s.fid = th[t].fid /\ s.client = c /\ s.pc = "send")
  <2>1. CASE Finish(t)
    <3>1. Goes(t, Idle)
      BY <1>1, <2>1, GoesIdle, ZenonT(60)
    <3>2. QED
      BY <3>1, ZenonT(60) DEF Goes
  <2>2. CASE ~Finish(t)
    BY <1>1, <1>2, <2>2, HostsFields, SMTT(60), Z3T(60)
  <2>3. QED
    BY <2>1, <2>2, ZenonT(60)
<1>10. th'[t] = s /\ \A u \in Threads : u # t => th'[u] = th[u]
  BY <1>9, ZenonT(60) DEF Inv, ObjectsInv
<1>11. \/ s.fid = None /\ s.pc = "idle"
       \/ s.img = i /\ s.fid = th[t].fid /\ s.client = c /\ s.pc = "send"
  BY <1>9, SMTT(60), Z3T(60) DEF Idle
<1>12. Moved(t)
  BY <1>2, <1>7, <1>10, <1>11, ZenonT(60) DEF Moved, Early
<1>13. Calm(t) /\ ThreadOK(th[t])'
  BY <1>1, <1>9, <1>10, <1>11, ZenonT(60) DEF Calm, ThreadOK, worldVars
<1>14. \A j \in Images : HostKept(j) /\ BlobKept(j, {t})
  BY <1>1, <1>6, <1>7, ZenonT(60) DEF HostKept, BlobKept
<1>15. Kept({t})
  BY <1>8, <1>10, <1>12, <1>14, ZenonT(60) DEF Kept
<1>16. MapsInv' /\ config' = config /\ liveURL' >= liveURL
  <2>1. MapsInv' /\ config' = config /\ liveURL' = liveURL /\ liveURL \in Nat
    BY <1>1, <1>6, ZenonT(60) DEF Inv, MapsInv, worldVars
  <2>2. liveURL >= liveURL
    BY <2>1, SMTT(60), Z3T(60)
  <2>3. QED
    BY <2>1, <2>2, ZenonT(60)
<1>17. ObjectsInv'
  BY <1>1, <1>8, <1>9, <1>16, SameTypes, ZenonT(60) DEF Inv, ObjectsInv
<1>18. KeychainInv'
  BY <1>1, KeychainUnchanged, ZenonT(60) DEF Inv
<1>19. QED
  BY <1>13, <1>15, <1>16, <1>17, <1>18, Frame, ZenonT(60)

\* A step that leaves the references, the maps, the fetchers and the blobs as
\* they are, and every thread with its image, its fetcher and its client.
SameObjects ==
    /\ UNCHANGED <<keychainVars, mapVars, fetcher, blob, worldVars>>
    /\ \A c \in Clients : client'[c].refs = client[c].refs
    /\ \A t \in Threads :
          /\ th'[t].img = th[t].img /\ th'[t].fid = th[t].fid /\ th'[t].client = th[t].client
          /\ th'[t].purpose = th[t].purpose /\ th'[t].url = th[t].url
          /\ th'[t].pc = th[t].pc \/ (th[t].pc \in Asking /\ th'[t].pc \in Asking)
          /\ th'[t].key = th[t].key

\* What a step that only changes tokens, flags and threads keeps.
LEMMA SameObjectsKeep ==
    ASSUME Inv, ObjectsInv', SameObjects
    PROVE  MapsInv' /\ ThreadsInv' /\ RefsInv' /\ URLsInv' /\ KeychainInv'
<1>1. /\ UNCHANGED <<keychainVars, mapVars, fetcher, blob, worldVars>>
      /\ \A c \in Clients : client'[c].refs = client[c].refs
  BY ZenonT(60) DEF SameObjects
<1>2. MapsInv'
  BY <1>1, ZenonT(60) DEF Inv, MapsInv, mapVars, worldVars
<1>3. ThreadsInv'
  <2>1. ASSUME NEW t \in Threads
        PROVE  ThreadOK(th[t])'
    <3>1. /\ th'[t].img = th[t].img /\ th'[t].fid = th[t].fid /\ th'[t].client = th[t].client
          /\ th'[t].purpose = th[t].purpose /\ th'[t].url = th[t].url
          /\ th'[t].pc = th[t].pc \/ (th[t].pc \in Asking /\ th'[t].pc \in Asking)
          /\ th'[t].key = th[t].key /\ ThreadOK(th[t])
          /\ config' = config /\ liveURL' = liveURL
      BY <1>1, ZenonT(60) DEF SameObjects, Inv, ThreadsInv, worldVars
    <3>2. CASE th'[t].pc = th[t].pc
      BY <3>1, <3>2, ZenonT(60) DEF ThreadOK
    <3>3. CASE th[t].pc \in Asking /\ th'[t].pc \in Asking
      BY <3>1, <3>3, ZenonT(60) DEF ThreadOK, Asking, Early
    <3>4. QED
      BY <3>1, <3>2, <3>3, ZenonT(60)
  <2>2. QED
    BY <2>1, ZenonT(60) DEF ThreadsInv
<1>4. \A i, c : Joined(i, c)' <=> Joined(i, c)
  BY <1>1, ZenonT(60) DEF Joined
<1>5. hostMap' = hostMap /\ blob' = blob /\ fetcher' = fetcher /\ liveURL' = liveURL
  BY <1>1, ZenonT(60) DEF mapVars, worldVars
<1>6. RefsInv'
  <2>1. \A c \in Clients : IsInjective(client'[c].refs)
    BY <1>1, ZenonT(60) DEF Inv, RefsInv
  <2>2. \A i \in Images : hostMap'[i].client # None => Joined(i, hostMap[i].client)'
    BY <1>1, <1>5, ZenonT(60) DEF Inv, RefsInv, Joined
  <2>3. \A i \in Images : blob'[i].fetcher # None => Joined(i, fetcher[blob[i].fetcher].client)'
    BY <1>1, <1>5, ZenonT(60) DEF Inv, RefsInv, Joined
  <2>4. ASSUME NEW t \in Threads
        PROVE  /\ th'[t].fid # None => Joined(th[t].img, fetcher[th[t].fid].client)'
               /\ th'[t].pc \notin Early \cup {"addRef"} => Joined(th[t].img, th[t].client)'
    <3>1. /\ th'[t].img = th[t].img /\ th'[t].fid = th[t].fid /\ th'[t].client = th[t].client
          /\ th'[t].pc \notin Early \cup {"addRef"} => th[t].pc \notin Early \cup {"addRef"}
      BY ZenonT(60) DEF SameObjects, Asking, Early
    <3>2. QED
      BY <1>1, <1>5, <3>1, ZenonT(60) DEF Inv, RefsInv, Joined
  <2>5. QED
    BY <2>1, <2>2, <2>3, <2>4, ZenonT(60) DEF RefsInv
<1>7. URLsInv'
  BY <1>5, ZenonT(60) DEF Inv, URLsInv
<1>8. KeychainInv'
  BY <1>1, KeychainUnchanged, ZenonT(60) DEF Inv
<1>9. QED
  BY <1>2, <1>3, <1>6, <1>7, <1>8, ZenonT(60)

\* The first thread that is challenged leads, the others wait for it.
LEMMA HandleChallengeStep ==
    ASSUME Inv, NEW t \in Threads, HandleChallenge(t)
    PROVE  Inv'
<1>1. th[t].pc = "challenge" /\ UNCHANGED <<keychainVars, mapVars, fetcher, blob, worldVars>>
  BY ZenonT(60) DEF HandleChallenge, At
<1>2. th[t].pc \in Asking /\ th[t] \in ThreadStates
  BY <1>1, AskingFacts, ZenonT(60) DEF Asking
<1>3. PICK c \in Clients : c = th[t].client
  BY <1>2, AskingFacts, ZenonT(60)
<1>4. client[c] \in ClientStates
  BY ZenonT(60) DEF Inv, ObjectsInv
<1> DEFINE d == [client[c] EXCEPT !.inflight = TRUE]
<1>5. /\ client' = [client EXCEPT ![c] = d]
      /\ d \in ClientStates /\ d.refs = client[c].refs /\ d.err = client[c].err /\ d.inflight = TRUE
  BY <1>3, <1>4, ZenonT(60) DEF HandleChallenge, ClientStates
<1> HIDE DEF d
<1>6. /\ client' \in [Clients -> ClientStates]
      /\ \A x \in Clients : client'[x].refs = client[x].refs /\ client'[x].err = client[x].err
      /\ \A x \in Clients : x # c => client'[x].inflight = client[x].inflight
      /\ client'[c].inflight
  BY <1>5, ZenonT(60) DEF Inv, ObjectsInv
<1>7. PICK p \in {"wait", "exchange"} :
        /\ p = IF client[c].inflight THEN "wait" ELSE "exchange"
        /\ th' = [th EXCEPT ![t] = [th[t] EXCEPT !.pc = p]]
  BY <1>3, ZenonT(60) DEF HandleChallenge, Go
<1> DEFINE s == [th[t] EXCEPT !.pc = p]
<1>8. s \in ThreadStates
  BY <1>2, ZenonT(60) DEF ThreadStates, PCs, Asking
<1>9. /\ s.img = th[t].img /\ s.client = c /\ s.fid = th[t].fid /\ s.key = th[t].key
      /\ s.pc = p /\ s.purpose = th[t].purpose /\ s.url = th[t].url
  BY <1>2, <1>3, ZenonT(60) DEF ThreadStates
<1>10. th' = [th EXCEPT ![t] = s]
  BY <1>7, ZenonT(60)
<1> HIDE DEF s
<1>11. th'[t] = s /\ \A u \in Threads : u # t => th'[u] = th[u]
  BY <1>10, ZenonT(60) DEF Inv, ObjectsInv
<1>12. ObjectsInv'
  <2>1. ThreadStates' = ThreadStates /\ FetcherStates' = FetcherStates
    BY <1>1, SameTypes, ZenonT(60) DEF worldVars
  <2>2. QED
    BY <1>1, <1>6, <1>8, <1>10, <2>1, ZenonT(60) DEF Inv, ObjectsInv
<1>13. SameObjects
  BY <1>1, <1>2, <1>3, <1>6, <1>9, <1>11, ZenonT(60) DEF SameObjects, Asking
<1>14. \A u \in Threads, x \in Clients :
          Leads(u, x)' <=> Leads(u, x) \/ (u = t /\ x = c /\ p = "exchange")
  BY <1>1, <1>9, <1>11, ZenonT(60) DEF Leads
<1>15. InflightInv'
  <2>1. \A x \in Clients : client'[x].inflight <=> \E u \in Threads : Leads(u, x)'
    <3>1. \E u \in Threads : Leads(u, c)'
      <4>1. CASE p = "exchange"
        BY <1>14, <4>1, ZenonT(60)
      <4>2. CASE p = "wait"
        <5>1. client[c].inflight
          BY <1>7, <4>2, ZenonT(60)
        <5>2. QED
          BY <1>14, <5>1, ZenonT(60) DEF Inv, InflightInv
      <4>3. QED
        BY <4>1, <4>2, ZenonT(60)
    <3>2. QED
      BY <1>6, <1>14, <3>1, ZenonT(60) DEF Inv, InflightInv
  <2>2. \A u, v \in Threads, x \in Clients : Leads(u, x)' /\ Leads(v, x)' => u = v
    <3>1. p = "exchange" => \A u \in Threads : ~Leads(u, c)
      BY <1>7, ZenonT(60) DEF Inv, InflightInv
    <3>2. QED
      BY <1>14, <3>1, ZenonT(60) DEF Inv, InflightInv
  <2>3. ASSUME NEW u \in Threads, th'[u].pc = "wait"
        PROVE  client'[th'[u].client].inflight
    <3>1. CASE u = t
      BY <1>6, <1>9, <1>11, <3>1, ZenonT(60)
    <3>2. CASE u # t
      <4>1. th'[u] = th[u] /\ th[u].client \in Clients
        BY <1>11, <2>3, <3>2, ZenonT(60) DEF Inv, ThreadsInv, ThreadOK, Early
      <4>2. QED
        BY <1>6, <2>3, <4>1, ZenonT(60) DEF Inv, InflightInv
    <3>3. QED
      BY <3>1, <3>2, ZenonT(60)
  <2>4. QED
    BY <2>1, <2>2, <2>3, ZenonT(60) DEF InflightInv
<1>16. FreshInv'
  <2>1. ASSUME NEW u \in Threads, th'[u].pc \in {"resend", "woken"}
        PROVE  th'[u] = th[u] /\ th[u].client \in Clients
    BY <1>9, <1>11, <2>1, ZenonT(60) DEF Inv, ThreadsInv, ThreadOK, Early
  <2>2. QED
    BY <1>6, <2>1, ZenonT(60) DEF Inv, FreshInv
<1>17. QED
  BY <1>12, <1>13, <1>15, <1>16, SameObjectsKeep, ZenonT(60) DEF Inv

\* The leader's exchange ends, and everybody who waited for it is woken.
LEMMA AddResponsesStep ==
    ASSUME Inv, NEW t \in Threads, AddResponses(t)
    PROVE  Inv'
<1>1. th[t].pc = "exchange" /\ UNCHANGED <<keychainVars, mapVars, fetcher, blob, worldVars>>
  BY ZenonT(60) DEF AddResponses, At
<1>2. th[t].pc \in Asking
  BY <1>1, ZenonT(60) DEF Asking
<1>3. PICK c \in Clients : c = th[t].client
  BY <1>2, AskingFacts, ZenonT(60)
<1>4. PICK ok \in BOOLEAN :
        /\ client' = [client EXCEPT ![c].tokens = @ \cup (IF ok THEN {th[t].host} ELSE {}),
                                    ![c].err = ~ok, ![c].inflight = FALSE]
        /\ th' = [u \in Threads |->
              IF th[u].client = c /\ Challenged(u)
              THEN [th[u] EXCEPT !.pc = CASE u = t -> IF ok THEN "resend" ELSE "failed"
                                          [] u # t /\ @ = "wait" -> "woken"
                                          [] OTHER -> @,
                                 !.fresh = IF ok THEN @ \cup {th[t].host} ELSE @]
              ELSE th[u]]
  BY <1>3, ZenonT(60) DEF AddResponses
<1>5. client[c] \in ClientStates /\ th \in [Threads -> ThreadStates]
  BY ZenonT(60) DEF Inv, ObjectsInv
<1>h. th[t].host \in Hosts /\ Hosts \subseteq Nat /\ config' = config
  BY <1>1, <1>5, FirstHost, ZenonT(60) DEF ThreadStates, worldVars, Inv, MapsInv
<1> DEFINE K == client[c].tokens \cup (IF ok THEN {th[t].host} ELSE {})
           d == [client[c] EXCEPT !.tokens = K, !.err = ~ok, !.inflight = FALSE]
<1>k. K \in SUBSET Nat
  BY <1>5, <1>h, ZenonT(60) DEF ClientStates
<1>7. client' = [client EXCEPT ![c] = d]
  BY <1>4, ZenonT(60)
<1> HIDE DEF K
<1>6. d \in ClientStates /\ d.refs = client[c].refs /\ d.err = ~ok /\ d.inflight = FALSE
  BY <1>5, <1>k, ZenonT(60) DEF ClientStates
<1> HIDE DEF d
<1>8. /\ client' \in [Clients -> ClientStates]
      /\ \A x \in Clients : client'[x].refs = client[x].refs
      /\ \A x \in Clients : x # c => client'[x] = client[x]
      /\ ~client'[c].inflight /\ client'[c].err = ~ok
  BY <1>6, <1>7, ZenonT(60) DEF Inv, ObjectsInv
<1>9. ASSUME NEW u \in Threads
      PROVE  /\ th'[u] \in ThreadStates
             /\ th'[u].img = th[u].img /\ th'[u].fid = th[u].fid /\ th'[u].client = th[u].client
             /\ th'[u].purpose = th[u].purpose /\ th'[u].url = th[u].url /\ th'[u].key = th[u].key
             /\ u = t => th'[u].pc = IF ok THEN "resend" ELSE "failed"
             /\ u # t => th'[u].pc = IF th[u].client = c /\ th[u].pc = "wait"
                                     THEN "woken" ELSE th[u].pc
             /\ th[u].client = c /\ Challenged(u) /\ ok => th'[u].fresh # {}
             /\ ~(th[u].client = c /\ Challenged(u)) => u # t /\ th'[u] = th[u]
  <2>1. th[u] \in ThreadStates
    BY <1>5, ZenonT(60)
  <2>2. CASE th[u].client = c /\ Challenged(u)
    <3> DEFINE p == CASE u = t -> IF ok THEN "resend" ELSE "failed"
                      [] u # t /\ th[u].pc = "wait" -> "woken"
                      [] OTHER -> th[u].pc
               f == IF ok THEN th[u].fresh \cup {th[t].host} ELSE th[u].fresh
               s == [th[u] EXCEPT !.pc = p, !.fresh = f]
    <3>1. th'[u] = s
      BY <1>4, <2>2, ZenonT(60)
    <3>p. /\ u = t => p = IF ok THEN "resend" ELSE "failed"
          /\ u # t => p = IF th[u].pc = "wait" THEN "woken" ELSE th[u].pc
      BY ZenonT(60)
    <3> HIDE DEF p
    <3>2. p \in PCs
      BY <2>1, <3>p, ZenonT(60) DEF PCs, Asking, ThreadStates
    <3>f. f \in SUBSET Hosts /\ (ok => f # {})
      BY <1>h, <2>1, ZenonT(60) DEF ThreadStates
    <3> HIDE DEF f
    <3>3. /\ s \in ThreadStates /\ s.pc = p /\ s.fresh = f
          /\ s.img = th[u].img /\ s.fid = th[u].fid /\ s.client = th[u].client
          /\ s.purpose = th[u].purpose /\ s.url = th[u].url /\ s.key = th[u].key
      BY <2>1, <3>2, <3>f, ZenonT(60) DEF ThreadStates
    <3> HIDE DEF s
    <3>4. QED
      BY <2>2, <3>1, <3>p, <3>f, <3>3, ZenonT(60)
  <2>3. CASE ~(th[u].client = c /\ Challenged(u))
    <3>1. th'[u] = th[u]
      BY <1>4, <2>3, ZenonT(60)
    <3>2. u # t /\ ~(th[u].client = c /\ th[u].pc = "wait")
      BY <1>1, <1>3, <2>3, ZenonT(60) DEF Challenged
    <3>3. QED
      BY <2>1, <2>3, <3>1, <3>2, ZenonT(60)
  <2>4. QED
    BY <2>2, <2>3, ZenonT(60)
<1>10. ObjectsInv'
  <2>1. th' \in [Threads -> ThreadStates]
    <3>1. DOMAIN th' = Threads /\ th' = [u \in Threads |-> th'[u]]
      BY <1>4, ZenonT(60)
    <3>2. QED
      BY <1>9, <3>1, ZenonT(60)
  <2>2. QED
    BY <1>1, <1>8, <1>h, <2>1, SameTypes, ZenonT(60) DEF Inv, ObjectsInv
<1>11. SameObjects
  <2>1. ASSUME NEW u \in Threads
        PROVE  th'[u].pc = th[u].pc \/ (th[u].pc \in Asking /\ th'[u].pc \in Asking)
    BY <1>1, <1>9, ZenonT(60) DEF Asking
  <2>2. QED
    BY <1>1, <1>8, <1>9, <2>1, ZenonT(60) DEF SameObjects
<1>12. \A u \in Threads, x \in Clients : Leads(u, x)' <=> Leads(u, x) /\ x # c
  <2>1. \A u \in Threads : Leads(u, c) => u = t
    BY <1>1, <1>3, ZenonT(60) DEF Leads, Inv, InflightInv
  <2>2. QED
    BY <1>1, <1>3, <1>9, <2>1, ZenonT(60) DEF Leads
<1>13. InflightInv'
  <2>1. \A x \in Clients : client'[x].inflight <=> \E u \in Threads : Leads(u, x)'
    BY <1>8, <1>12, ZenonT(60) DEF Inv, InflightInv
  <2>2. \A u, v \in Threads, x \in Clients : Leads(u, x)' /\ Leads(v, x)' => u = v
    BY <1>12, ZenonT(60) DEF Inv, InflightInv
  <2>3. ASSUME NEW u \in Threads, th'[u].pc = "wait"
        PROVE  client'[th'[u].client].inflight
    <3>1. u # t /\ th[u].client # c /\ th'[u] = th[u]
      BY <1>9, <2>3, ZenonT(60)
    <3>2. th[u].client \in Clients
      BY <2>3, <3>1, ZenonT(60) DEF Inv, ThreadsInv, ThreadOK, Early
    <3>3. QED
      BY <1>8, <2>3, <3>1, <3>2, ZenonT(60) DEF Inv, InflightInv
  <2>4. QED
    BY <2>1, <2>2, <2>3, ZenonT(60) DEF InflightInv
<1>14. FreshInv'
  <2>1. ASSUME NEW u \in Threads, th'[u].pc = "resend"
        PROVE  th'[u].fresh # {}
    <3>1. CASE u = t
      BY <1>1, <1>3, <1>9, <2>1, <3>1, ZenonT(60) DEF Challenged
    <3>2. CASE u # t
      <4>1. th[u].pc = "resend"
        BY <1>9, <2>1, <3>2, ZenonT(60)
      <4>2. th'[u] = th[u]
        BY <1>9, <4>1, ZenonT(60) DEF Challenged
      <4>3. QED
        BY <4>1, <4>2, ZenonT(60) DEF Inv, FreshInv
    <3>3. QED
      BY <3>1, <3>2, ZenonT(60)
  <2>2. ASSUME NEW u \in Threads, th'[u].pc = "woken"
        PROVE  client'[th'[u].client].err \/ th'[u].fresh # {}
    <3>1. u # t /\ th'[u].client = th[u].client /\ th[u].pc \in {"wait", "woken"}
      BY <1>9, <2>2, ZenonT(60)
    <3>2. CASE th[u].client = c
      <4>1. Challenged(u)
        BY <3>1, ZenonT(60) DEF Challenged
      <4>2. QED
        BY <1>8, <1>9, <3>1, <3>2, <4>1, ZenonT(60)
    <3>3. CASE th[u].client # c
      <4>1. th'[u] = th[u] /\ th[u].client \in Clients
        BY <1>9, <2>2, <3>1, <3>3, ZenonT(60) DEF Inv, ThreadsInv, ThreadOK, Early
      <4>2. QED
        BY <1>8, <2>2, <3>3, <4>1, ZenonT(60) DEF Inv, FreshInv
    <3>4. QED
      BY <3>2, <3>3, ZenonT(60)
  <2>3. QED
    BY <2>1, <2>2, ZenonT(60) DEF FreshInv
<1>15. QED
  BY <1>10, <1>11, <1>13, <1>14, SameObjectsKeep, ZenonT(60) DEF Inv

\* A blob was accessed.
LEMMA Accessed ==
    ASSUME Inv, NEW i \in Images, blob' = [blob EXCEPT ![i].checked = TRUE]
    PROVE  blob' \in [Images -> BlobStates] /\ \A j \in Images : blob'[j].fetcher = blob[j].fetcher
<1>1. blob \in [Images -> BlobStates]
  BY ZenonT(60) DEF Inv, ObjectsInv
<1>2. [blob[i] EXCEPT !.checked = TRUE] \in BlobStates
  BY <1>1, ZenonT(60) DEF BlobStates
<1>3. [blob[i] EXCEPT !.checked = TRUE].fetcher = blob[i].fetcher
  BY <1>1, ZenonT(60) DEF BlobStates
<1>4. QED
  BY <1>1, <1>2, <1>3, ZenonT(60)

\* A thread goes on, and the blob of its image may have been accessed.
LEMMA RequestDone ==
    ASSUME Inv, NEW t \in Threads, NEW s, Goes(t, s), th[t].img \in Images,
           UNCHANGED <<keychainVars, mapVars, worldVars>>,
           blob' = blob \/ blob' = [blob EXCEPT ![th[t].img].checked = TRUE],
           NEW fs, Refreshed(fs), LeavesObjects(fs)
    PROVE  Inv'
<1>1. MapsInv'
  BY ZenonT(60) DEF mapVars, worldVars, Inv, MapsInv
<1>2. blob' \in [Images -> BlobStates] /\ \A j \in Images : blob'[j].fetcher = blob[j].fetcher
  <2>1. CASE blob' = blob
    BY <2>1, ZenonT(60) DEF Inv, ObjectsInv
  <2>2. CASE blob' = [blob EXCEPT ![th[t].img].checked = TRUE]
    BY <2>2, Accessed, ZenonT(60)
  <2>3. QED
    BY <2>1, <2>2, ZenonT(60)
<1>3. \A i \in Images : HostKept(i) /\ BlobKept(i, {t})
  BY <1>2, ZenonT(60) DEF mapVars, HostKept, BlobKept
<1>4. UNCHANGED <<keychainVars, config, liveURL>>
  BY ZenonT(60) DEF worldVars
<1>5. QED
  BY <1>1, <1>2, <1>3, <1>4, ThreadFrame, ZenonT(60)

\* What a thread has whose request returns.
LEMMA ReturnFacts ==
    ASSUME Inv, NEW t \in Threads, NEW p, Purpose(t, p)
    PROVE  /\ th[t].pc \in Asking /\ th[t].pc # "exchange" /\ th[t].purpose = p
           /\ th[t] \in ThreadStates
           /\ th[t].pc \notin Early \cup {"addRef", "exchange"}
           /\ th[t].client \in Clients /\ th[t].img \in Images
           /\ th[t].url <= liveURL /\ liveURL \in Nat
           /\ p \in WithFetcher => th[t].fid \in Fetchers
<1>1. th[t].pc \in Asking /\ th[t].pc # "exchange" /\ th[t].purpose = p
  BY ZenonT(60) DEF Purpose, Asking
<1>2. QED
  BY <1>1, AskingFacts, ZenonT(60)

\* A request is answered, and another one is sent.
LEMMA SendsAgain ==
    ASSUME Inv, NEW t \in Threads, NEW p, Purpose(t, p), NEW q \in Purposes,
           q \in WithFetcher => p \in WithFetcher,
           NEW s, s.purpose = q, s.pc = "send", s.url <= liveURL, s \in ThreadStates,
           s.img = th[t].img, s.client = th[t].client, s.fid = th[t].fid,
           th' = [th EXCEPT ![t] = s]
    PROVE  Goes(t, s)
<1>1. s.purpose \in WithFetcher => s.fid \in Fetchers
  BY ReturnFacts, ZenonT(60)
<1>2. th[t].pc \notin Early \cup {"addRef", "exchange"}
  BY ReturnFacts, ZenonT(60)
<1>3. QED
  BY <1>1, <1>2, GoesOn, ZenonT(60)

\* The answer to a fetch: the read ends, is sent again or refreshes its URL.
LEMMA FetchedStep ==
    ASSUME Inv, NEW t \in Threads, Fetched(t)
    PROVE  Inv'
<1>1. Purpose(t, "fetch") /\ UNCHANGED <<keychainVars, mapVars, worldVars>>
  BY ZenonT(60) DEF Fetched
<1>2. /\ th[t] \in ThreadStates /\ th[t].img \in Images /\ th[t].fid \in Fetchers
      /\ th[t].url <= liveURL /\ liveURL \in Nat /\ th[t].pc # "exchange"
      /\ th[t].pc \notin Early \cup {"addRef", "exchange"}
  BY <1>1, ReturnFacts, ZenonT(60) DEF WithFetcher
<1>3. Refreshed(fetcher)
  BY SameFetchers, ZenonT(60)
<1>4. CASE /\ Finish(t) /\ Collect(fetcher, client)
           /\ blob' = blob \/ blob' = [blob EXCEPT ![th[t].img].checked = TRUE]
  <2>1. Goes(t, Idle)
    BY <1>2, <1>4, GoesIdle, ZenonT(60)
  <2>2. LeavesObjects(fetcher)
    BY <1>4, ZenonT(60) DEF LeavesObjects
  <2>3. QED
    BY <1>1, <1>2, <1>3, <1>4, <2>1, <2>2, RequestDone, ZenonT(60)
<1>5. CASE /\ th' = [th EXCEPT ![t].purpose = "refreshURL", ![t].url = RegistryURL,
                               ![t].retry = FALSE, ![t].pc = "send"]
           /\ UNCHANGED <<blob, objectVars>>
  <2> DEFINE s == [th[t] EXCEPT !.purpose = "refreshURL", !.url = RegistryURL,
                                !.retry = FALSE, !.pc = "send"]
  <2>1. th' = [th EXCEPT ![t] = s]
    BY <1>5, ZenonT(60)
  <2>2. s \in ThreadStates
    BY <1>2, ZenonT(60) DEF ThreadStates, PCs, Asking, Purposes, WithFetcher, RegistryURL
  <2>3. /\ s.img = th[t].img /\ s.client = th[t].client /\ s.fid = th[t].fid
        /\ s.pc = "send" /\ s.purpose = "refreshURL" /\ s.url <= liveURL
    BY <1>2, SMTT(60), Z3T(60) DEF ThreadStates, RegistryURL
  <2> HIDE DEF s
  <2>4. Goes(t, s)
    BY <1>1, <2>1, <2>2, <2>3, SendsAgain, ZenonT(60) DEF Purposes, WithFetcher
  <2>5. LeavesObjects(fetcher)
    BY <1>5, ZenonT(60) DEF LeavesObjects, objectVars
  <2>6. QED
    BY <1>1, <1>2, <1>3, <1>5, <2>4, <2>5, RequestDone, ZenonT(60)
<1>6. CASE /\ fetcher' = [fetcher EXCEPT ![th[t].fid].single = TRUE]
           /\ th' = [th EXCEPT ![t].retry = FALSE, ![t].pc = "fetch"]
           /\ UNCHANGED <<blob, client>>
  <2> DEFINE s == [th[t] EXCEPT !.retry = FALSE, !.pc = "fetch"]
  <2>1. th' = [th EXCEPT ![t] = s]
    BY <1>6, ZenonT(60)
  <2>2. s \in ThreadStates
    BY <1>2, ZenonT(60) DEF ThreadStates, PCs
  <2>3. /\ s.img = th[t].img /\ s.client = th[t].client /\ s.fid = th[t].fid
        /\ s.pc = "fetch" /\ s.purpose = "fetch" /\ s.url = th[t].url
    BY <1>1, <1>2, ReturnFacts, ZenonT(60) DEF ThreadStates
  <2> HIDE DEF s
  <2>4. Goes(t, s)
    BY <1>2, <2>1, <2>2, <2>3, GoesOn, ZenonT(60) DEF Purposes, WithFetcher
  <2>5. PICK f \in Fetchers : f = th[t].fid
    BY <1>2, ZenonT(60)
  <2>6. fetcher[f] \in FetcherStates /\ fetcher[f].url <= liveURL
    BY ZenonT(60) DEF Inv, ObjectsInv, URLsInv
  <2> DEFINE g == [fetcher[f] EXCEPT !.single = TRUE]
  <2>7. g \in FetcherStates /\ g.client = fetcher[f].client /\ g.url = fetcher[f].url
    BY <2>6, ZenonT(60) DEF FetcherStates
  <2>8. fetcher' = [fetcher EXCEPT ![f] = g]
    BY <1>6, <2>5, ZenonT(60)
  <2> HIDE DEF g
  <2>9. Refreshed(fetcher')
    BY <1>3, <2>6, <2>7, <2>8, ZenonT(60) DEF Refreshed
  <2>10. LeavesObjects(fetcher')
    BY <1>6, ZenonT(60) DEF LeavesObjects
  <2>11. QED
    BY <1>1, <1>2, <1>6, <2>4, <2>9, <2>10, RequestDone, ZenonT(60)
<1>7. QED
  BY <1>4, <1>5, <1>6, ZenonT(60) DEF Fetched

\* The thread looks its sources up again, after a request.
LEMMA GetsSources ==
    ASSUME Inv, NEW t \in Threads, NEW p, Purpose(t, p), getSources(t)
    PROVE  \E s : Goes(t, s)
<1>1. PICK i \in Images, op \in {None, "read", "check", "resolve"} :
         i = th[t].img /\ op = th[t].op
  BY ReturnFacts, ZenonT(60) DEF ThreadStates
<1>2. th' = [th EXCEPT ![t] = Sources(op, i)]
  BY <1>1, ZenonT(60) DEF getSources, Sources
<1>3. Goes(t, Sources(op, i))
  BY <1>2, ReturnFacts, GoesToSources, ZenonT(60)
<1>4. QED
  BY <1>3, ZenonT(60)

\* The answer to the request for a new URL.
LEMMA RefreshURLStep ==
    ASSUME Inv, NEW t \in Threads, refreshURL(t)
    PROVE  Inv'
<1>1. /\ Purpose(t, "refreshURL") /\ Collect(fetcher, client)
      /\ UNCHANGED <<keychainVars, mapVars, blob, worldVars>>
  BY ZenonT(60) DEF refreshURL
<1>2. PICK url \in {liveURL, RegistryURL} : url = IF config.redirects THEN liveURL ELSE RegistryURL
  BY ZenonT(60)
<1>3. /\ th[t] \in ThreadStates /\ th[t].img \in Images /\ th[t].fid \in Fetchers
      /\ th[t].purpose = "refreshURL" /\ liveURL \in Nat /\ th[t].pc # "exchange"
      /\ th[t].pc \notin Early \cup {"addRef", "exchange"}
  BY <1>1, ReturnFacts, ZenonT(60) DEF WithFetcher
<1>4. url \in Nat /\ url <= liveURL
  BY <1>2, <1>3, SMTT(60), Z3T(60) DEF RegistryURL
<1>5. CASE th' = [th EXCEPT ![t].url = url, ![t].pc = "storeURL"]
  <2> DEFINE s == [th[t] EXCEPT !.url = url, !.pc = "storeURL"]
  <2>1. th' = [th EXCEPT ![t] = s]
    BY <1>5, ZenonT(60)
  <2>2. s \in ThreadStates
    BY <1>3, <1>4, ZenonT(60) DEF ThreadStates, PCs
  <2>3. /\ s.img = th[t].img /\ s.client = th[t].client /\ s.fid = th[t].fid
        /\ s.pc = "storeURL" /\ s.purpose = "refreshURL" /\ s.url = url
    BY <1>3, ZenonT(60) DEF ThreadStates
  <2> HIDE DEF s
  <2>4. Goes(t, s)
    BY <1>3, <1>4, <2>1, <2>2, <2>3, GoesOn, ZenonT(60) DEF Purposes, WithFetcher
  <2>5. QED
    BY <1>1, <2>4, ThreadOnly, ZenonT(60)
<1>6. CASE Finish(t)
  BY <1>1, <1>3, <1>6, GoesIdle, ThreadOnly, ZenonT(60)
<1>7. CASE getSources(t)
  BY <1>1, <1>7, GetsSources, ThreadOnly, ZenonT(60)
<1>8. QED
  BY <1>2, <1>5, <1>6, <1>7, ZenonT(60) DEF refreshURL

\* The new URL is stored in the fetcher, and the read goes on with it.
LEMMA StoreURLStep ==
    ASSUME Inv, NEW t \in Threads, storeURL(t)
    PROVE  Inv'
<1>1. /\ th[t].pc = "storeURL" /\ UNCHANGED <<keychainVars, mapVars, worldVars>>
      /\ Collect([fetcher EXCEPT ![th[t].fid].url = th[t].url], client)
      /\ \/ Go(t, "fetch") /\ blob' = blob
         \/ Finish(t) /\ blob' = [blob EXCEPT ![th[t].img].checked = TRUE]
  BY ZenonT(60) DEF storeURL, At
<1>2. /\ th[t] \in ThreadStates /\ th[t].img \in Images /\ th[t].fid \in Fetchers
      /\ th[t].client \in Clients
      /\ th[t].url <= liveURL /\ liveURL \in Nat /\ th[t].pc # "exchange"
      /\ th[t].pc \notin Early \cup {"addRef", "exchange"}
  BY <1>1, ZenonT(60) DEF Inv, ObjectsInv, MapsInv, ThreadsInv, ThreadOK, Early
<1>3. PICK f \in Fetchers, url \in Nat : f = th[t].fid /\ url = th[t].url
  BY <1>2, ZenonT(60) DEF ThreadStates
<1>4. fetcher[f] \in FetcherStates
  BY ZenonT(60) DEF Inv, ObjectsInv
<1> DEFINE g == [fetcher[f] EXCEPT !.url = url]
           fs == [fetcher EXCEPT ![f] = g]
<1>5. g \in FetcherStates /\ g.client = fetcher[f].client /\ g.url = url
  BY <1>4, ZenonT(60) DEF FetcherStates
<1>6. fs = [fetcher EXCEPT ![th[t].fid].url = th[t].url]
  BY <1>3, ZenonT(60)
<1> HIDE DEF g
<1>7. Refreshed(fs)
  BY <1>2, <1>3, <1>5, SameFetchers, ZenonT(60) DEF Refreshed
<1>8. LeavesObjects(fs)
  BY <1>1, <1>6, ZenonT(60) DEF LeavesObjects
<1> HIDE DEF fs
<1>9. CASE Go(t, "fetch") /\ blob' = blob
  <2> DEFINE s == [th[t] EXCEPT !.pc = "fetch"]
  <2>1. th' = [th EXCEPT ![t] = s]
    BY <1>9, ZenonT(60) DEF Go
  <2>2. s \in ThreadStates
    BY <1>2, ZenonT(60) DEF ThreadStates, PCs
  <2>3. /\ s.img = th[t].img /\ s.client = th[t].client /\ s.fid = th[t].fid
        /\ s.pc = "fetch" /\ s.url = th[t].url
    BY <1>2, ZenonT(60) DEF ThreadStates
  <2> HIDE DEF s
  <2>4. ThreadOK(s)
    BY <1>2, <2>3, ZenonT(60) DEF ThreadOK, Early, Asking
  <2>5. Goes(t, s)
    BY <1>2, <2>1, <2>2, <2>3, <2>4, ZenonT(60) DEF Goes
  <2>6. QED
    BY <1>1, <1>2, <1>7, <1>8, <1>9, <2>5, RequestDone, ZenonT(60)
<1>10. CASE Finish(t) /\ blob' = [blob EXCEPT ![th[t].img].checked = TRUE]
  BY <1>1, <1>2, <1>7, <1>8, <1>10, GoesIdle, RequestDone, ZenonT(60)
<1>11. QED
  BY <1>1, <1>9, <1>10, ZenonT(60)

\* The answer to a check of the blob.
LEMMA CheckedStep ==
    ASSUME Inv, NEW t \in Threads, Checked(t)
    PROVE  Inv'
<1>1. /\ Purpose(t, "check") /\ Collect(fetcher, client)
      /\ UNCHANGED <<keychainVars, mapVars, worldVars>>
  BY ZenonT(60) DEF Checked
<1>2. /\ th[t] \in ThreadStates /\ th[t].img \in Images /\ th[t].fid \in Fetchers
      /\ liveURL \in Nat /\ th[t].pc # "exchange"
      /\ th[t].pc \notin Early \cup {"addRef", "exchange"}
  BY <1>1, ReturnFacts, ZenonT(60) DEF WithFetcher
<1>3. Refreshed(fetcher) /\ LeavesObjects(fetcher)
  BY <1>1, SameFetchers, ZenonT(60) DEF LeavesObjects
<1>4. CASE blob' = [blob EXCEPT ![th[t].img].checked = TRUE] /\ Finish(t)
  BY <1>1, <1>2, <1>3, <1>4, GoesIdle, RequestDone, ZenonT(60)
<1>5. CASE /\ th' = [th EXCEPT ![t].purpose = "refreshURL", ![t].url = RegistryURL,
                               ![t].pc = "send"]
           /\ UNCHANGED blob
  <2> DEFINE s == [th[t] EXCEPT !.purpose = "refreshURL", !.url = RegistryURL, !.pc = "send"]
  <2>1. th' = [th EXCEPT ![t] = s]
    BY <1>5, ZenonT(60)
  <2>2. s \in ThreadStates
    BY <1>2, ZenonT(60) DEF ThreadStates, PCs, Asking, Purposes, WithFetcher, RegistryURL
  <2>3. /\ s.img = th[t].img /\ s.client = th[t].client /\ s.fid = th[t].fid
        /\ s.pc = "send" /\ s.purpose = "refreshURL" /\ s.url <= liveURL
    BY <1>2, SMTT(60), Z3T(60) DEF ThreadStates, RegistryURL
  <2> HIDE DEF s
  <2>4. Goes(t, s)
    BY <1>1, <2>1, <2>2, <2>3, SendsAgain, ZenonT(60) DEF Purposes, WithFetcher
  <2>5. QED
    BY <1>1, <1>2, <1>3, <1>5, <2>4, RequestDone, ZenonT(60)
<1>6. CASE getSources(t) /\ UNCHANGED blob
  BY <1>1, <1>2, <1>3, <1>6, GetsSources, RequestDone, ZenonT(60)
<1>7. QED
  BY <1>4, <1>5, <1>6, ZenonT(60) DEF Checked

\* The size of the layer is known, or asked for once more.
LEMMA GetLayerSizeStep ==
    ASSUME Inv, NEW t \in Threads, getLayerSize(t)
    PROVE  Inv'
<1>1. /\ Purpose(t, "size") /\ Collect(fetcher, client)
      /\ UNCHANGED <<keychainVars, mapVars, blob, worldVars>>
  BY ZenonT(60) DEF getLayerSize
<1>2. /\ th[t] \in ThreadStates /\ th[t].img \in Images /\ th[t].fid \in Fetchers
      /\ th[t].purpose = "size" /\ th[t].url <= liveURL /\ th[t].pc # "exchange"
      /\ th[t].pc \notin Early \cup {"addRef", "exchange"}
  BY <1>1, ReturnFacts, ZenonT(60) DEF WithFetcher
<1>3. ASSUME NEW n \in Nat, NEW p \in {"made", "send"},
             th' = [th EXCEPT ![t] = [th[t] EXCEPT !.turn = n, !.pc = p]]
      PROVE  Inv'
  <2> DEFINE s == [th[t] EXCEPT !.turn = n, !.pc = p]
  <2>1. p \in PCs
    BY ZenonT(60) DEF PCs, Asking
  <2>2. s \in ThreadStates
    BY <1>2, <2>1, ZenonT(60) DEF ThreadStates
  <2>3. /\ s.img = th[t].img /\ s.client = th[t].client /\ s.fid = th[t].fid
        /\ s.pc = p /\ s.purpose = "size" /\ s.url = th[t].url
    BY <1>2, ZenonT(60) DEF ThreadStates
  <2>4. th' = [th EXCEPT ![t] = s]
    BY <1>3, ZenonT(60)
  <2> HIDE DEF s
  <2>5. Goes(t, s)
    BY <1>2, <2>2, <2>3, <2>4, GoesOn, ZenonT(60) DEF Purposes, WithFetcher
  <2>6. QED
    BY <1>1, <2>5, ThreadOnly, ZenonT(60)
<1>4. CASE Go(t, "made")
  <2>1. PICK n \in Nat : n = th[t].turn
    BY <1>2, ZenonT(60) DEF ThreadStates
  <2>2. [th[t] EXCEPT !.pc = "made"] = [th[t] EXCEPT !.turn = n, !.pc = "made"]
    BY <1>2, <2>1, ZenonT(60) DEF ThreadStates
  <2>3. th' = [th EXCEPT ![t] = [th[t] EXCEPT !.turn = n, !.pc = "made"]]
    BY <1>4, <2>2, ZenonT(60) DEF Go
  <2>4. QED
    BY <1>3, <2>3, ZenonT(60)
<1>5. CASE th' = [th EXCEPT ![t].turn = @ + 1, ![t].pc = "send"]
  <2>1. PICK n \in Nat : n = th[t].turn + 1
    BY <1>2, SMTT(60), Z3T(60) DEF ThreadStates
  <2>2. th' = [th EXCEPT ![t] = [th[t] EXCEPT !.turn = n, !.pc = "send"]]
    BY <1>5, <2>1, ZenonT(60)
  <2>3. QED
    BY <1>3, <2>2, ZenonT(60)
<1>6. CASE Finish(t)
  BY <1>1, <1>2, <1>6, GoesIdle, ThreadOnly, ZenonT(60)
<1>7. QED
  BY <1>4, <1>5, <1>6, ZenonT(60) DEF getLayerSize

\* The blob gets its fetcher.
LEMMA FetcherMadeStep ==
    ASSUME Inv, NEW t \in Threads, fetcherMade(t)
    PROVE  Inv'
<1>1. /\ th[t].pc = "made" /\ Finish(t) /\ Collect(fetcher, client)
      /\ UNCHANGED <<keychainVars, mapVars, worldVars>>
      /\ \/ blob' = [blob EXCEPT ![th[t].img].fetcher = th[t].fid, ![th[t].img].checked = TRUE]
         \/ blob' = blob
  BY ZenonT(60) DEF fetcherMade, At
<1>2. PICK i \in Images, f \in Fetchers : i = th[t].img /\ f = th[t].fid
  BY <1>1, ZenonT(60) DEF Inv, ThreadsInv, ThreadOK
<1>3. Goes(t, Idle)
  BY <1>1, GoesIdle, ZenonT(60)
<1>4. blob \in [Images -> BlobStates]
  BY ZenonT(60) DEF Inv, ObjectsInv
<1>5. blob' \in [Images -> BlobStates] /\ \A j \in Images : BlobKept(j, {t})
  <2>1. CASE blob' = blob
    BY <1>4, <2>1, ZenonT(60) DEF BlobKept
  <2>2. CASE blob' = [blob EXCEPT ![th[t].img].fetcher = th[t].fid, ![th[t].img].checked = TRUE]
    <3> DEFINE b == [blob[i] EXCEPT !.fetcher = f, !.checked = TRUE]
    <3>1. b \in BlobStates /\ b.fetcher = f
      BY <1>4, ZenonT(60) DEF BlobStates
    <3>2. blob' = [blob EXCEPT ![i] = b]
      BY <1>2, <2>2, ZenonT(60)
    <3> HIDE DEF b
    <3>3. blob'[i].fetcher = th[t].fid /\ \A j \in Images : j # i => blob'[j] = blob[j]
      BY <1>2, <1>4, <3>1, <3>2, ZenonT(60)
    <3>4. QED
      BY <1>2, <1>4, <3>1, <3>2, <3>3, ZenonT(60) DEF BlobKept
  <2>3. QED
    BY <1>1, <2>1, <2>2, ZenonT(60)
<1>6. MapsInv'
  BY <1>1, ZenonT(60) DEF mapVars, worldVars, Inv, MapsInv
<1>7. \A j \in Images : HostKept(j)
  BY <1>1, ZenonT(60) DEF mapVars, HostKept
<1>8. UNCHANGED <<keychainVars, config, liveURL>>
  BY <1>1, ZenonT(60) DEF worldVars
<1>9. Refreshed(fetcher) /\ LeavesObjects(fetcher)
  BY <1>1, SameFetchers, ZenonT(60) DEF LeavesObjects
<1>10. QED
  BY <1>3, <1>5, <1>6, <1>7, <1>8, <1>9, ThreadFrame, ZenonT(60)

\* A host said where the blob is: a new fetcher, or the next host.
LEMMA RedirectStep ==
    ASSUME Inv, NEW t \in Threads, redirect(t)
    PROVE  Inv'
<1>1. Purpose(t, "redirect") /\ UNCHANGED <<keychainVars, mapVars, blob, worldVars>>
  BY ZenonT(60) DEF redirect
<1>2. /\ th[t] \in ThreadStates /\ th[t].purpose = "redirect"
      /\ th[t].url <= liveURL /\ liveURL \in Nat /\ th[t].pc # "exchange"
      /\ th[t].pc \notin Early \cup {"addRef", "exchange"}
  BY <1>1, ReturnFacts, ZenonT(60)
<1>3. PICK i \in Images, c \in Clients : i = th[t].img /\ c = th[t].client
  BY <1>1, ReturnFacts, ZenonT(60)
<1>4. PICK url \in {liveURL, RegistryURL} : url = IF config.redirects THEN liveURL ELSE RegistryURL
  BY ZenonT(60)
<1>5. url \in Nat /\ url <= liveURL
  BY <1>2, <1>4, SMTT(60), Z3T(60) DEF RegistryURL
<1>6. ASSUME NEW f \in Fetchers, f \notin LiveFetchers, NEW p \in {"made", "send"},
             fetcher' = [fetcher EXCEPT ![f] = [client |-> c, host |-> th[t].host, url |-> url, single |-> config.single]],
             client' = client,
             th' = [th EXCEPT ![t] = [th[t] EXCEPT !.fid = f, !.url = url, !.turn = 1,
                                                   !.purpose = "size", !.pc = p]]
      PROVE  Inv'
  <2> DEFINE s == [th[t] EXCEPT !.fid = f, !.url = url, !.turn = 1, !.purpose = "size", !.pc = p]
             g == [client |-> c, host |-> th[t].host, url |-> url, single |-> config.single]
  <2>1. p \in PCs /\ "size" \in Purposes
    BY ZenonT(60) DEF PCs, Asking, Purposes, WithFetcher
  <2>2. s \in ThreadStates
    BY <1>2, <1>5, <2>1, ZenonT(60) DEF ThreadStates
  <2>3. s.img = i /\ s.client = c /\ s.fid = f /\ s.pc = p /\ s.purpose = "size" /\ s.url = url
    BY <1>2, <1>3, ZenonT(60) DEF ThreadStates
  <2>4. config.single \in BOOLEAN /\ th[t].host \in Hosts
    BY <1>2, AccessAssumption, ZenonT(60) DEF Inv, MapsInv, ThreadStates
  <2>5. g \in FetcherStates /\ g.client = c /\ g.url = url
    BY <1>5, <2>4, ZenonT(60) DEF FetcherStates
  <2>6. th' = [th EXCEPT ![t] = s] /\ fetcher' = [fetcher EXCEPT ![f] = g]
    BY <1>6, ZenonT(60)
  <2> HIDE DEF s, g
  <2>7. /\ th'[t] = s /\ fetcher'[f] = g
        /\ \A u \in Threads : u # t => th'[u] = th[u]
        /\ \A h \in Fetchers : h # f => fetcher'[h] = fetcher[h]
    BY <2>6, ZenonT(60) DEF Inv, ObjectsInv
  <2>8. ObjectsInv'
    <3>1. ThreadStates' = ThreadStates /\ FetcherStates' = FetcherStates
      BY <1>1, SameTypes, ZenonT(60) DEF worldVars
    <3>2. th' \in [Threads -> ThreadStates] /\ fetcher' \in [Fetchers -> FetcherStates]
      BY <2>2, <2>5, <2>6, ZenonT(60) DEF Inv, ObjectsInv
    <3>3. QED
      BY <1>1, <1>6, <3>1, <3>2, ZenonT(60) DEF Inv, ObjectsInv
  <2>9. MapsInv' /\ KeychainInv' /\ config' = config /\ liveURL' = liveURL /\ liveURL' >= liveURL
    <3>1. MapsInv'
      BY <1>1, ZenonT(60) DEF mapVars, worldVars, Inv, MapsInv
    <3>2. KeychainInv'
      BY <1>1, KeychainUnchanged, ZenonT(60) DEF Inv
    <3>3. config' = config /\ liveURL' = liveURL /\ liveURL \in Nat
      BY <1>1, <1>2, ZenonT(60) DEF worldVars
    <3>4. liveURL >= liveURL
      BY <3>3, SMTT(60), Z3T(60)
    <3>5. QED
      BY <3>1, <3>2, <3>3, <3>4, ZenonT(60)
  <2>10. ThreadOK(th[t])'
    BY <1>5, <2>3, <2>7, <2>9, ZenonT(60) DEF ThreadOK, Early, Asking, Purposes, WithFetcher
  <2>11. Joined(i, c)
    BY <1>2, <1>3, ZenonT(60) DEF Inv, RefsInv
  <2>12. JoinedNow(i, c)
    BY <1>6, <2>11, ZenonT(60) DEF Joined, JoinedNow
  <2>13. Moved(t)
    BY <1>2, <1>3, <2>3, <2>5, <2>7, <2>12, ZenonT(60) DEF Moved
  <2>14. Calm(t)
    BY <1>2, <2>3, <2>7, ZenonT(60) DEF Calm
  <2>15. \A d \in Clients : ClientKept(d)
    BY <1>6, ZenonT(60) DEF ClientKept, Inv, RefsInv
  <2>16. \A h \in Fetchers : FetcherKept(h)
    BY <1>5, <1>6, <2>5, <2>7, <2>9, ZenonT(60) DEF FetcherKept, Inv, URLsInv
  <2>17. \A j \in Images : HostKept(j) /\ BlobKept(j, {t})
    BY <1>1, ZenonT(60) DEF mapVars, HostKept, BlobKept
  <2>18. Kept({t})
    BY <2>7, <2>13, <2>15, <2>16, <2>17, ZenonT(60) DEF Kept
  <2>19. QED
    BY <2>8, <2>9, <2>10, <2>14, <2>18, Frame, ZenonT(60)
<1>7. ASSUME Fetchers \ LiveFetchers # {},
             fetcher' = [fetcher EXCEPT ![NewFetcher] =
                            [client |-> th[t].client, host |-> th[t].host, url |-> url,
                             single |-> config.single]],
             UNCHANGED client, NEW p \in {"made", "send"},
             th' = [th EXCEPT ![t].fid = NewFetcher, ![t].url = url, ![t].turn = 1,
                              ![t].purpose = "size", ![t].pc = p]
      PROVE  Inv'
  <2>1. PICK f \in Fetchers : f = NewFetcher /\ f \notin LiveFetchers
    BY <1>7, ZenonT(60) DEF NewFetcher
  <2>2. QED
    BY <1>3, <1>6, <1>7, <2>1, ZenonT(60)
<1>8. CASE /\ th[t].host < config.hosts /\ UNCHANGED objectVars
           /\ th' = [th EXCEPT ![t].host = @ + 1, ![t].pc = "send"]
  <2>0. PICK n \in Hosts : n = th[t].host + 1
    <3>1. th[t].host \in Hosts /\ config.hosts \in Nat
      BY <1>2, AccessAssumption, ZenonT(60) DEF ThreadStates, Inv, MapsInv
    <3>2. QED
      BY <1>8, <3>1, SMTT(60), Z3T(60) DEF Hosts
  <2> DEFINE s == [th[t] EXCEPT !.host = n, !.pc = "send"]
  <2>1. s \in ThreadStates
    BY <1>2, ZenonT(60) DEF ThreadStates, PCs, Asking
  <2>2. /\ s.img = th[t].img /\ s.client = th[t].client /\ s.fid = th[t].fid
        /\ s.pc = "send" /\ s.purpose = "redirect" /\ s.url = th[t].url
    BY <1>2, ZenonT(60) DEF ThreadStates
  <2>3. th' = [th EXCEPT ![t] = s]
    BY <1>8, <2>0, ZenonT(60)
  <2> HIDE DEF s
  <2>4. Goes(t, s)
    BY <1>2, <2>1, <2>2, <2>3, GoesOn, ZenonT(60) DEF Purposes, WithFetcher
  <2>5. QED
    BY <1>1, <1>8, <2>4, ThreadOnly, ZenonT(60)
<1>9. CASE Finish(t) /\ Collect(fetcher, client)
  BY <1>1, <1>2, <1>9, GoesIdle, ThreadOnly, ZenonT(60)
<1>10. QED
  BY <1>4, <1>7, <1>8, <1>9, ZenonT(60) DEF redirect

-----------------------------------------------------------------------------
(* The world changes.                                                      *)

\* A step in which no thread moves.
LEMMA WorldFrame ==
    ASSUME Inv, MapsInv', ObjectsInv', KeychainInv', UNCHANGED <<config, th>>, liveURL' >= liveURL,
           \A c \in Clients : ClientKept(c), \A f \in Fetchers : FetcherKept(f),
           \A i \in Images : HostKept(i) /\ BlobKept(i, {})
    PROVE  Inv'
<1>1. Kept({})
  BY ZenonT(60) DEF Kept
<1>2. QED
  BY <1>1, Frame, ZenonT(60)

\* The maps change, and what nobody reaches any more may be dropped.
LEMMA EntriesChange ==
    ASSUME Inv, MapsInv', UNCHANGED <<keychainVars, blob, config, liveURL, th>>,
           \A i \in Images : hostMap'[i].client \in {None, hostMap[i].client},
           UNCHANGED objectVars \/ Collect(fetcher, client)
    PROVE  Inv'
<1>0. liveURL \in Nat /\ liveURL' = liveURL
  BY ZenonT(60) DEF Inv, MapsInv
<1>1. liveURL' = liveURL /\ liveURL' >= liveURL
  BY <1>0, SMTT(60), Z3T(60)
<1>2. Refreshed(fetcher) /\ LeavesObjects(fetcher)
  BY SameFetchers, ZenonT(60) DEF LeavesObjects, objectVars
<1>3. /\ client' \in [Clients -> ClientStates]
      /\ fetcher' \in [Fetchers -> FetcherStates]
      /\ \A c \in Clients : ClientKept(c)
      /\ \A f \in Fetchers : FetcherKept(f)
  BY <1>1, <1>2, Collected, ZenonT(60)
<1>4. ObjectsInv'
  BY <1>3, SameTypes, ZenonT(60) DEF Inv, ObjectsInv
<1>5. \A i \in Images : HostKept(i) /\ BlobKept(i, {})
  BY ZenonT(60) DEF HostKept, BlobKept
<1>6. KeychainInv'
  BY KeychainUnchanged, ZenonT(60) DEF Inv
<1>7. QED
  BY <1>1, <1>3, <1>4, <1>5, <1>6, WorldFrame, ZenonT(60)

\* The sweeper of a map finds an expired entry.
LEMMA SweepFindsStep ==
    ASSUME Inv, sweepFinds
    PROVE  Inv'
<1>1. UNCHANGED <<keychainVars, mapVars, objectVars, blob, config, liveURL, events, th>>
  BY ZenonT(60) DEF sweepFinds
<1>2. sweeper' \in {None} \cup ({"host"} \X Images) \cup ({"auth"} \X Keys)
  BY SMTT(60), Z3T(60) DEF sweepFinds
<1>3. MapsInv'
  BY <1>1, <1>2, ZenonT(60) DEF Inv, MapsInv, mapVars
<1>4. QED
  BY <1>1, <1>3, EntriesChange, ZenonT(60) DEF mapVars

\* An entry of a map may go or expire.
LEMMA EntryTypes == NoEntry \in Entries /\ NoEntry.client = None
BY ZenonT(60) DEF NoEntry, Entries

\* The sweeper deletes the entry it found, whatever is there by now.
LEMMA SweepDeletesStep ==
    ASSUME Inv, sweepDeletes
    PROVE  Inv'
<1>1. /\ sweeper # None /\ sweeper' = None /\ Collect(fetcher, client)
      /\ UNCHANGED <<keychainVars, blob, config, liveURL, events, th>>
  BY ZenonT(60) DEF sweepDeletes
<1>2. hostMap \in [Images -> Entries] /\ authMap \in [Keys -> Entries]
  BY ZenonT(60) DEF Inv, MapsInv
<1>3. \/ hostMap' = [hostMap EXCEPT ![sweeper[2]] = NoEntry] /\ authMap' = authMap
      \/ authMap' = [authMap EXCEPT ![sweeper[2]] = NoEntry] /\ hostMap' = hostMap
  BY ZenonT(60) DEF sweepDeletes
<1>4. hostMap' \in [Images -> Entries] /\ authMap' \in [Keys -> Entries]
  BY <1>2, <1>3, EntryTypes, ZenonT(60)
<1>5. MapsInv'
  BY <1>1, <1>4, ZenonT(60) DEF Inv, MapsInv
<1>6. \A i \in Images : hostMap'[i].client \in {None, hostMap[i].client}
  BY <1>2, <1>3, EntryTypes, ZenonT(60)
<1>7. QED
  BY <1>1, <1>5, <1>6, EntriesChange, ZenonT(60)

\* What the world may do is counted.
LEMMA EventsAreBounded ==
    ASSUME Inv, Happens
    PROVE  events' \in 0 .. MaxEvents
<1>1. events \in 0 .. MaxEvents /\ events < MaxEvents /\ events' = events + 1
  BY ZenonT(60) DEF Happens, Inv, MapsInv
<1>2. MaxEvents \in Nat
  BY AccessAssumption, ZenonT(60)
<1>3. QED
  BY <1>1, <1>2, SMTT(60), Z3T(60)

\* An entry of a map grows old.
LEMMA EntriesExpireStep ==
    ASSUME Inv, entriesExpire
    PROVE  Inv'
<1>1. /\ UNCHANGED <<keychainVars, objectVars, blob, config, sweeper, liveURL, th>>
      /\ events' \in 0 .. MaxEvents
  BY EventsAreBounded, ZenonT(60) DEF entriesExpire
<1>2. hostMap \in [Images -> Entries] /\ authMap \in [Keys -> Entries]
  BY ZenonT(60) DEF Inv, MapsInv
<1>3. \A e \in Entries : [e EXCEPT !.old = TRUE] \in Entries /\ [e EXCEPT !.old = TRUE].client = e.client
  BY ZenonT(60) DEF Entries
<1>4. CASE hostMap' = hostMap /\ \E k \in Keys : authMap' = [authMap EXCEPT ![k].old = TRUE]
  <2>1. authMap' \in [Keys -> Entries]
    BY <1>2, <1>3, <1>4, SMTT(60), Z3T(60)
  <2>2. MapsInv'
    BY <1>1, <1>4, <2>1, ZenonT(60) DEF Inv, MapsInv
  <2>3. QED
    BY <1>1, <1>4, <2>2, EntriesChange, ZenonT(60)
<1>5. CASE authMap' = authMap /\ \E i \in Images : hostMap' = [hostMap EXCEPT ![i].old = TRUE]
  <2>1. PICK i \in Images : hostMap' = [hostMap EXCEPT ![i] = [hostMap[i] EXCEPT !.old = TRUE]]
    BY <1>5, ZenonT(60)
  <2>2. PICK e : e = [hostMap[i] EXCEPT !.old = TRUE] /\ e \in Entries /\ e.client = hostMap[i].client
    BY <1>2, <1>3, ZenonT(60)
  <2>3. hostMap' \in [Images -> Entries] /\ \A j \in Images : hostMap'[j].client = hostMap[j].client
    BY <1>2, <2>1, <2>2, ZenonT(60)
  <2>4. MapsInv'
    BY <1>1, <1>5, <2>3, ZenonT(60) DEF Inv, MapsInv
  <2>5. QED
    BY <1>1, <2>3, <2>4, EntriesChange, ZenonT(60)
<1>6. QED
  BY <1>4, <1>5, ZenonT(60) DEF entriesExpire

\* The registry stops accepting the token of a client.
LEMMA TokenExpiresStep ==
    ASSUME Inv, NEW c \in Clients, NEW h \in Hosts, tokenExpires(c, h)
    PROVE  Inv'
<1>1. /\ UNCHANGED <<keychainVars, mapVars, fetcher, blob, config, sweeper, liveURL, th>>
      /\ events' \in 0 .. MaxEvents /\ client' = [client EXCEPT ![c].tokens = @ \ {h}]
  BY EventsAreBounded, ZenonT(60) DEF tokenExpires
<1>2. client[c] \in ClientStates /\ client \in [Clients -> ClientStates]
  BY ZenonT(60) DEF Inv, ObjectsInv
<1> DEFINE K == client[c].tokens \ {h}
           d == [client[c] EXCEPT !.tokens = K]
<1>k. K \in SUBSET Nat
  BY <1>2, ZenonT(60) DEF ClientStates
<1>d. client' = [client EXCEPT ![c] = d]
  BY <1>1, ZenonT(60)
<1> HIDE DEF K
<1>3. /\ client' = [client EXCEPT ![c] = d] /\ d \in ClientStates /\ d.refs = client[c].refs
      /\ d.err = client[c].err /\ d.inflight = client[c].inflight
  BY <1>2, <1>d, <1>k, ZenonT(60) DEF ClientStates
<1> HIDE DEF d
<1>4. /\ client' \in [Clients -> ClientStates]
      /\ \A x \in Clients : /\ client'[x].refs = client[x].refs
                            /\ client'[x].err = client[x].err
                            /\ client'[x].inflight = client[x].inflight
  BY <1>2, <1>3, ZenonT(60)
<1>5. \A x \in Clients : ClientKept(x)
  BY <1>4, ZenonT(60) DEF ClientKept, Inv, RefsInv
<1>6. \A f \in Fetchers : FetcherKept(f)
  BY <1>1, ZenonT(60) DEF FetcherKept, Inv, URLsInv
<1>7. MapsInv' /\ ObjectsInv'
  BY <1>1, <1>4, SameTypes, ZenonT(60) DEF Inv, MapsInv, ObjectsInv, mapVars
<1>8. \A i \in Images : HostKept(i) /\ BlobKept(i, {})
  BY <1>1, ZenonT(60) DEF HostKept, BlobKept, mapVars
<1>9. KeychainInv' /\ liveURL' >= liveURL
  BY <1>1, KeychainUnchanged, SMTT(60), Z3T(60) DEF Inv, MapsInv
<1>10. QED
  BY <1>1, <1>5, <1>6, <1>7, <1>8, <1>9, WorldFrame, ZenonT(60)

\* The blobs and the clock change, and no blob changes its fetcher.
LEMMA BlobsChange ==
    ASSUME Inv, UNCHANGED <<keychainVars, mapVars, objectVars, config, sweeper, th>>, Happens,
           liveURL' \in Nat, liveURL' >= liveURL, blob' \in [Images -> BlobStates],
           \A i \in Images : blob'[i].fetcher = blob[i].fetcher
    PROVE  Inv'
<1>1. MapsInv'
  BY EventsAreBounded, ZenonT(60) DEF Inv, MapsInv, mapVars
<1>2. ObjectsInv'
  BY SameTypes, ZenonT(60) DEF Inv, ObjectsInv, objectVars
<1>3. \A c \in Clients : ClientKept(c)
  BY ZenonT(60) DEF objectVars, ClientKept, Inv, RefsInv
<1>4. \A f \in Fetchers : FetcherKept(f)
  <2>1. ASSUME NEW f \in Fetchers
        PROVE  fetcher'[f].url <= liveURL'
    <3>1. fetcher'[f] = fetcher[f] /\ fetcher[f].url \in Nat /\ fetcher[f].url <= liveURL /\ liveURL \in Nat
      BY ZenonT(60) DEF objectVars, Inv, ObjectsInv, MapsInv, FetcherStates, URLsInv
    <3>2. QED
      BY <3>1, SMTT(60), Z3T(60)
  <2>2. QED
    BY <2>1, ZenonT(60) DEF objectVars, FetcherKept
<1>5. \A i \in Images : HostKept(i) /\ BlobKept(i, {})
  BY ZenonT(60) DEF HostKept, BlobKept, mapVars
<1>6. KeychainInv'
  BY KeychainUnchanged, ZenonT(60) DEF Inv
<1>7. QED
  BY <1>1, <1>2, <1>3, <1>4, <1>5, <1>6, WorldFrame, ZenonT(60)

\* Close of a blob.
LEMMA CloseStep ==
    ASSUME Inv, NEW i \in Images, Close(i)
    PROVE  Inv'
<1>1. /\ Happens /\ UNCHANGED <<keychainVars, mapVars, objectVars, config, sweeper, liveURL, th>>
      /\ blob' = [blob EXCEPT ![i].closed = TRUE]
  BY ZenonT(60) DEF Close
<1>2. blob \in [Images -> BlobStates] /\ liveURL \in Nat
  BY ZenonT(60) DEF Inv, ObjectsInv, MapsInv
<1>3. PICK b : b = [blob[i] EXCEPT !.closed = TRUE] /\ b \in BlobStates /\ b.fetcher = blob[i].fetcher
  <2>1. blob[i] \in BlobStates
    BY <1>2, ZenonT(60)
  <2> DEFINE c == [blob[i] EXCEPT !.closed = TRUE]
  <2>2. c \in BlobStates /\ c.fetcher = blob[i].fetcher
    BY <2>1, ZenonT(60) DEF BlobStates
  <2>3. QED
    BY <2>2, ZenonT(60)
<1>4. blob' = [blob EXCEPT ![i] = b]
  BY <1>1, <1>3, ZenonT(60)
<1>5. blob' \in [Images -> BlobStates] /\ \A j \in Images : blob'[j].fetcher = blob[j].fetcher
  BY <1>2, <1>3, <1>4, ZenonT(60)
<1>6. QED
  BY <1>1, <1>2, <1>5, BlobsChange, SMTT(60), Z3T(60)

\* Storage URLs expire, and blobs have not been checked for a while.
LEMMA TimePassesStep ==
    ASSUME Inv, NEW expired \in BOOLEAN, NEW unused \in SUBSET Images, timePasses(expired, unused)
    PROVE  Inv'
<1>1. /\ Happens /\ UNCHANGED <<keychainVars, mapVars, objectVars, config, sweeper, th>>
      /\ blob' = [i \in Images |-> [blob[i] EXCEPT !.checked = @ /\ i \notin unused]]
      /\ liveURL' = IF expired THEN liveURL + 1 ELSE liveURL
  BY ZenonT(60) DEF timePasses
<1>2. blob \in [Images -> BlobStates] /\ liveURL \in Nat
  BY ZenonT(60) DEF Inv, ObjectsInv, MapsInv
<1>3. liveURL' \in Nat /\ liveURL' >= liveURL
  BY <1>1, <1>2, SMTT(60), Z3T(60)
<1>4. ASSUME NEW i \in Images
      PROVE  blob'[i] \in BlobStates /\ blob'[i].fetcher = blob[i].fetcher
  <2>1. PICK b \in BOOLEAN : b = (blob[i].checked /\ i \notin unused)
    BY ZenonT(60)
  <2>2. blob'[i] = [blob[i] EXCEPT !.checked = b]
    BY <1>1, <2>1, ZenonT(60)
  <2>3. blob[i] \in BlobStates
    BY <1>2, ZenonT(60)
  <2>4. [blob[i] EXCEPT !.checked = b] \in BlobStates /\ [blob[i] EXCEPT !.checked = b].fetcher = blob[i].fetcher
    BY <2>3, ZenonT(60) DEF BlobStates
  <2>5. QED
    BY <2>2, <2>4, ZenonT(60)
<1>5. blob' \in [Images -> BlobStates]
  <2>1. DOMAIN blob' = Images /\ blob' = [i \in Images |-> blob'[i]]
    BY <1>1, ZenonT(60)
  <2>2. QED
    BY <1>4, <2>1, ZenonT(60)
<1>6. QED
  BY <1>1, <1>3, <1>4, <1>5, BlobsChange, ZenonT(60)

\* Only the keychains change.
LEMMA KeychainsChange ==
    ASSUME Inv, KeychainInv', events' \in 0 .. MaxEvents,
           UNCHANGED <<mapVars, objectVars, blob, config, sweeper, liveURL, th>>
    PROVE  Inv'
<1>1. MapsInv' /\ ObjectsInv'
  BY SameTypes, ZenonT(60) DEF Inv, MapsInv, ObjectsInv, mapVars, objectVars
<1>2. \A c \in Clients : ClientKept(c)
  BY ZenonT(60) DEF objectVars, ClientKept, Inv, RefsInv
<1>3. \A f \in Fetchers : FetcherKept(f)
  BY ZenonT(60) DEF objectVars, FetcherKept, Inv, URLsInv
<1>4. \A i \in Images : HostKept(i) /\ BlobKept(i, {})
  BY ZenonT(60) DEF HostKept, BlobKept, mapVars
<1>5. liveURL' >= liveURL
  BY SMTT(60), Z3T(60) DEF Inv, MapsInv
<1>6. QED
  BY <1>1, <1>2, <1>3, <1>4, <1>5, WorldFrame, ZenonT(60)

\* The secrets of the cluster change.
LEMMA CredentialsChangeStep ==
    ASSUME Inv, credentialsChange
    PROVE  Inv'
<1>1. /\ UNCHANGED <<mapVars, objectVars, blob, config, sweeper, liveURL, th>>
      /\ events' \in 0 .. MaxEvents
  BY EventsAreBounded, ZenonT(60) DEF credentialsChange
<1>2. KeychainInv'
  <2>1. ASSUME NEW i \in Images, NEW a \in Creds \cup {NoCred, BadAuth}, PullImage(i, a)
        PROVE  KeychainInv'
    BY <2>1, ImageStep, ZenonT(60) DEF Inv
  <2>2. ASSUME NEW i \in Images, RemoveImage(i)
        PROVE  KeychainInv'
    <3>1. NoCred \in Creds \cup {NoCred, BadAuth}
      BY ZenonT(60)
    <3>2. QED
      BY <2>2, <3>1, ImageStep, ZenonT(60) DEF Inv
  <2>3. ASSUME NEW s \in Secrets, NEW v \in Creds \cup {NoCred, BadAuth}, SecretEvent(s, v)
        PROVE  KeychainInv'
    BY <2>3, SecretEventStep, ZenonT(60) DEF Inv
  <2>4. QED
    BY <2>1, <2>2, <2>3, ZenonT(60) DEF credentialsChange
<1>3. QED
  BY <1>1, <1>2, KeychainsChange, ZenonT(60)

\* The steps of the keychain itself, and events that meet them.
LEMMA KeychainSteps ==
    ASSUME Inv, secretChangesAgain \/ (keychainStep /\ UNCHANGED accessVars)
    PROVE  Inv'
<1>1. /\ UNCHANGED <<mapVars, objectVars, blob, config, sweeper, liveURL, th>>
      /\ events' \in 0 .. MaxEvents
  BY ZenonT(60) DEF secretChangesAgain, accessVars, mapVars, objectVars, Inv, MapsInv
<1>2. KeychainInv'
  <2>1. CASE secretChangesAgain
    <3>1. PICK s \in Secrets, v \in Creds \cup {NoCred, BadAuth} : SecretEvent(s, v)
      BY <2>1, ZenonT(60) DEF secretChangesAgain, Inv, KeychainInv, KeychainTypeOK
    <3>2. QED
      BY <3>1, SecretEventStep, ZenonT(60) DEF Inv
  <2>2. CASE keychainStep
    BY <2>2, TakeStep, ApplyStep, ZenonT(60) DEF keychainStep, Inv
  <2>3. QED
    BY <2>1, <2>2, ZenonT(60)
<1>3. QED
  BY <1>1, <1>2, KeychainsChange, ZenonT(60)

-----------------------------------------------------------------------------
(* The invariant.                                                          *)

\* Before the first operation.
LEMMA InitInv == Init => Inv
<1> SUFFICES ASSUME Init PROVE Inv
  BY ZenonT(60)
<1>0. 0 \in Nat /\ 1 \in Nat /\ 0 <= 1 /\ <<>> \in Seq(Images)
  BY SMTT(60), Z3T(60)
<1>1. /\ NoEntry \in Entries /\ NoClient \in ClientStates /\ NoFetcher \in FetcherStates
      /\ NoBlob \in BlobStates /\ Idle \in ThreadStates
  BY Unused, ZenonT(60) DEF Init, NoEntry, Entries, NoBlob, BlobStates
<1>2. MapsInv
  <2>1. MaxEvents \in Nat
    BY AccessAssumption, ZenonT(60)
  <2>2. 0 \in 0 .. MaxEvents
    BY <2>1, SMTT(60), Z3T(60)
  <2>3. hostMap \in [Images -> Entries] /\ authMap \in [Keys -> Entries]
    BY <1>1, ZenonT(60) DEF Init
  <2>4. QED
    BY <1>0, <2>2, <2>3, ZenonT(60) DEF Init, MapsInv
<1>3. ObjectsInv
  BY <1>1, ZenonT(60) DEF Init, ObjectsInv
<1>4. /\ \A t \in Threads : th[t] = Idle
      /\ \A c \in Clients : client[c] = NoClient
      /\ \A i \in Images : hostMap[i] = NoEntry /\ blob[i] = NoBlob
      /\ \A f \in Fetchers : fetcher[f] = NoFetcher
      /\ liveURL = 1
  BY ZenonT(60) DEF Init
<1>5. /\ Idle.pc = "idle" /\ Idle.client = None /\ Idle.fid = None /\ Idle.url = 0
      /\ NoClient.refs = <<>> /\ NoClient.inflight = FALSE /\ NoEntry.client = None
      /\ NoBlob.fetcher = None /\ NoFetcher.url = 0
  BY ZenonT(60) DEF Idle, NoClient, NoEntry, NoBlob, NoFetcher, RegistryURL
<1>6. ThreadsInv
  <2>1. ThreadOK(Idle)
    BY <1>0, <1>4, <1>5, ZenonT(60) DEF ThreadOK, Early, Asking
  <2>2. QED
    BY <1>4, <2>1, ZenonT(60) DEF ThreadsInv
<1>7. RefsInv
  <2>1. IsInjective(NoClient.refs)
    BY <1>5, SMTT(60), Z3T(60) DEF IsInjective
  <2>2. QED
    BY <1>4, <1>5, <2>1, ZenonT(60) DEF RefsInv, Early
<1>8. URLsInv
  BY <1>4, <1>5, SMTT(60), Z3T(60) DEF URLsInv
<1>9. InflightInv
  BY <1>4, <1>5, ZenonT(60) DEF InflightInv, Leads
<1>10. FreshInv
  BY <1>4, <1>5, ZenonT(60) DEF FreshInv
<1>11. KeychainInv
  BY ZenonT(60) DEF Init, KeychainInit, KeychainInv, KeychainTypeOK, NotSyncing
<1>12. QED
  BY <1>2, <1>3, <1>6, <1>7, <1>8, <1>9, <1>10, <1>11, ZenonT(60) DEF Inv

\* Every step of a thread keeps the invariant.
LEMMA ThreadSteps ==
    ASSUME Inv, NEW t \in Threads, Step(t) \/ cancelled(t)
    PROVE  Inv'
<1>1. CASE \/ hostsLoad(t) \/ hostsDrop(t) \/ authClientKey(t) \/ authDrop(t)
           \/ newAuthClient(t) \/ addRef(t)
  BY <1>1, HostsLoadStep, DropStep, AuthClientKeyStep, NewAuthClientStep, AddRefStep, ZenonT(60)
<1>2. CASE challenged(t) \/ HandleChallenge(t) \/ AddResponses(t) \/ woken(t) \/ cancelled(t)
  BY <1>2, ChallengedStep, HandleChallengeStep, AddResponsesStep, WokenStep, CancelledStep, ZenonT(60)
<1>3. CASE fetch(t) \/ Fetched(t) \/ refreshURL(t) \/ storeURL(t) \/ Checked(t)
  BY <1>3, FetchStep, FetchedStep, RefreshURLStep, StoreURLStep, CheckedStep, ZenonT(60)
<1>4. CASE redirect(t) \/ getLayerSize(t) \/ fetcherMade(t)
  BY <1>4, RedirectStep, GetLayerSizeStep, FetcherMadeStep, ZenonT(60)
<1>5. QED
  BY <1>1, <1>2, <1>3, <1>4, ZenonT(60) DEF Step

\* Every step keeps the invariant.
LEMMA NextInv == Inv /\ [Next]_vars => Inv'
<1> SUFFICES ASSUME Inv, [Next]_vars PROVE Inv'
  BY ZenonT(60)
<1>1. ASSUME NEW t \in Threads, Step(t) \/ cancelled(t)
      PROVE  Inv'
  BY <1>1, ThreadSteps, ZenonT(60)
<1>2. ASSUME NEW w \in Works, ReadAt(w[1], w[2]) \/ Check(w[1], w[2]) \/ Resolve(w[1], w[2])
      PROVE  Inv'
  <2>1. PICK t \in Threads, i \in Images : t = w[1] /\ i = w[2]
    BY AccessAssumption, ZenonT(60)
  <2>2. ReadAt(t, i) \/ Check(t, i) \/ Resolve(t, i)
    BY <1>2, <2>1, ZenonT(60)
  <2>3. QED
    BY <2>2, ReadAtStep, CheckStep, ResolveStep, ZenonT(60)
<1>3. ASSUME NEW i \in Images, Close(i)
      PROVE  Inv'
  BY <1>3, CloseStep, ZenonT(60)
<1>4. ASSUME NEW expired \in BOOLEAN, NEW unused \in SUBSET Images, timePasses(expired, unused)
      PROVE  Inv'
  BY <1>4, TimePassesStep, ZenonT(60)
<1>5. ASSUME NEW c \in Clients, NEW h \in Hosts, tokenExpires(c, h)
      PROVE  Inv'
  BY <1>5, TokenExpiresStep, ZenonT(60)
<1>6. CASE sweepFinds \/ sweepDeletes \/ entriesExpire \/ credentialsChange
  BY <1>6, SweepFindsStep, SweepDeletesStep, EntriesExpireStep, CredentialsChangeStep, ZenonT(60)
<1>7. CASE secretChangesAgain \/ (keychainStep /\ UNCHANGED accessVars)
  BY <1>7, KeychainSteps, ZenonT(60)
<1>8. CASE UNCHANGED vars
  <2>1. UNCHANGED <<mapVars, objectVars, blob, config, sweeper, liveURL, th, keychainVars, events>>
    BY <1>8, ZenonT(60) DEF vars, accessVars, mapVars, objectVars
  <2>2. KeychainInv' /\ events' \in 0 .. MaxEvents
    BY <2>1, KeychainUnchanged, ZenonT(60) DEF Inv, MapsInv
  <2>3. QED
    BY <2>1, <2>2, KeychainsChange, ZenonT(60)
<1>9. QED
  BY <1>1, <1>2, <1>3, <1>4, <1>5, <1>6, <1>7, <1>8, ZenonT(60) DEF Next

\* The invariant holds in every behaviour.
LEMMA InvHolds == Spec => []Inv
BY InitInv, NextInv, PTL DEF Spec

-----------------------------------------------------------------------------
(* The theorems.                                                           *)

\* The types of the maps, the AuthClients, the fetchers and the threads; an
\* image joins a client once, and a fetcher knows no URL that was not handed out.
THEOREM Typing == Spec => []TypeOK
<1>1. Inv => TypeOK
  <2> SUFFICES ASSUME Inv PROVE TypeOK
    BY ZenonT(60)
  <2>1. KeychainTypeOK /\ MapsInv
    BY ZenonT(60) DEF Inv, KeychainInv
  <2>2. \A c \in Clients : Range(client[c].refs) \subseteq Images /\ IsInjective(client[c].refs)
    <3>1. \A c \in Clients : client[c].refs \in Seq(Images)
      BY ZenonT(60) DEF Inv, ObjectsInv, ClientStates
    <3>2. \A c \in Clients : IsInjective(client[c].refs)
      BY ZenonT(60) DEF Inv, RefsInv
    <3>3. QED
      BY <3>1, <3>2, SMTT(60), Z3T(60) DEF Range
  <2>3. \A i \in Images : blob[i].fetcher # None => fetcher[blob[i].fetcher].client # None
    BY AccessAssumption, ZenonT(60) DEF Inv, RefsInv, Joined
  <2>4. \A f \in Fetchers : fetcher[f].url <= liveURL
    BY ZenonT(60) DEF Inv, URLsInv
  <2>5. \A t \in Threads : th[t].pc \in {"send", "resend"} => th[t].client # None
    BY AccessAssumption, ZenonT(60) DEF Inv, ThreadsInv, ThreadOK, Early
  <2>6. QED
    BY <2>1, <2>2, <2>3, <2>4, <2>5, ZenonT(60) DEF TypeOK, MapsInv
<1>2. QED
  BY <1>1, InvHolds, PTL

\* HandleChallenge lets one thread at a time exchange a client's credentials,
\* and whoever waits for an exchange waits for one that is going on.
THEOREM ChallengesAreShared == Spec => []OneExchangePerClient
<1>1. Inv => OneExchangePerClient
  <2> SUFFICES ASSUME Inv PROVE OneExchangePerClient
    BY ZenonT(60)
  <2>1. ASSUME NEW t \in Threads, NEW u \in Threads, At(t, "exchange"), At(u, "exchange"),
               th[t].client = th[u].client
        PROVE  t = u
    <3>1. th[t].client \in Clients
      BY <2>1, ZenonT(60) DEF At, Inv, ThreadsInv, ThreadOK, Early
    <3>2. QED
      BY <2>1, <3>1, ZenonT(60) DEF Inv, InflightInv, Leads, At
  <2>2. ASSUME NEW t \in Threads, At(t, "wait")
        PROVE  /\ client[th[t].client].inflight
               /\ \E u \in Threads : At(u, "exchange") /\ th[u].client = th[t].client
    <3>1. th[t].client \in Clients
      BY <2>2, ZenonT(60) DEF At, Inv, ThreadsInv, ThreadOK, Early
    <3>2. client[th[t].client].inflight
      BY <2>2, ZenonT(60) DEF At, Inv, InflightInv
    <3>3. QED
      BY <3>1, <3>2, ZenonT(60) DEF At, Inv, InflightInv, Leads
  <2>3. QED
    BY <2>1, <2>2, ZenonT(60) DEF OneExchangePerClient
<1>2. QED
  BY <1>1, InvHolds, PTL

\* AuthClient.Do sends a request again only when its client has obtained a token
\* after the request was refused; without mirrors it is one for the request's
\* host, since the only host there is has it.
THEOREM ResentAreFresh == Spec => []ResentWithNewToken
<1>1. Inv => ResentWithNewToken
  <2> SUFFICES ASSUME Inv, NEW t \in Threads, At(t, "resend")
               PROVE  th[t].fresh # {} /\ (config.hosts = 1 => th[t].host \in th[t].fresh)
    BY ZenonT(60) DEF ResentWithNewToken
  <2>1. th[t].fresh # {}
    BY ZenonT(60) DEF Inv, FreshInv, At
  <2>2. th[t].host \in Hosts /\ th[t].fresh \subseteq Hosts
    BY ZenonT(60) DEF Inv, ObjectsInv, ThreadStates
  <2>3. config.hosts = 1 => Hosts = {1}
    BY SMTT(60), Z3T(60) DEF Hosts
  <2>4. QED
    BY <2>1, <2>2, <2>3, ZenonT(60)
<1>2. QED
  BY <1>1, InvHolds, PTL

\* The library's theorems about orders.
Orders == INSTANCE WellFoundedInduction

\* A nonempty set of positions has a last one.
LEMMA LastOf ==
    ASSUME NEW n \in Nat, NEW S \in SUBSET (1 .. n), S # {}
    PROVE  (CHOOSE x \in S : \A k \in S : k <= x) \in S
<1> DEFINE T == {n - x : x \in S}
<1>1. T \subseteq Nat /\ T # {}
  <2>1. \A x \in S : n - x \in Nat
    BY SMTT(60), Z3T(60)
  <2>2. T # {}
    <3>1. PICK x : x \in S
      BY ZenonT(60)
    <3>2. n - x \in T
      BY <3>1, ZenonT(60)
    <3>3. QED
      BY <3>2, ZenonT(60)
  <2>3. QED
    BY <2>1, <2>2, ZenonT(60)
<1>2. PICK m \in T : \A y \in T : ~(<<y, m>> \in Orders!OpToRel(<, Nat))
  BY <1>1, Orders!WFMin, Orders!NatLessThanWellFounded, ZenonT(60)
<1>3. PICK x \in S : m = n - x
  BY ZenonT(60)
<1>4. ASSUME NEW y \in S
      PROVE  y <= x
  <2>1. n - y \in T /\ n - y \in Nat /\ m \in Nat
    BY <1>1, ZenonT(60)
  <2>2. ~(n - y < m)
    BY <1>2, <2>1, ZenonT(60) DEF Orders!OpToRel
  <2>3. x \in Int /\ y \in Int /\ n \in Int
    BY SMTT(60), Z3T(60)
  <2>4. QED
    BY <1>3, <2>2, <2>3, SMTT(60), Z3T(60)
<1>5. QED
  BY <1>4, ZenonT(60)

\* The credential function of a shared client finds credentials when an image
\* that joined the client has some: the exchange is not anonymous.
THEOREM ImagesKeepTheirCredentials == Spec => []ExchangesAreNotAnonymous
<1>1. Inv => ExchangesAreNotAnonymous
  <2> SUFFICES ASSUME Inv, NEW t \in Threads, At(t, "exchange"),
                      NoCred \notin multiCredsFuncs(th[t].img)
               PROVE  NoCred \notin credsFunc(th[t].client)
    BY ZenonT(60) DEF ExchangesAreNotAnonymous
  <2>1. Joined(th[t].img, th[t].client)
    BY ZenonT(60) DEF Inv, RefsInv, At, Early
  <2>2. PICK c \in Clients, refs \in Seq(Images) :
          c = th[t].client /\ refs = client[c].refs /\ th[t].img \in Range(refs)
    BY <2>1, ZenonT(60) DEF Joined, Inv, ObjectsInv, ClientStates
  <2>3. PICK n \in DOMAIN refs : refs[n] = th[t].img
    BY <2>2, ZenonT(60) DEF Range
  <2> DEFINE known == {k \in DOMAIN refs : multiCredsFuncs(refs[k]) # {NoCred}}
  <2>4. n \in known
    BY <2>3, ZenonT(60)
  <2>5. known \in SUBSET (1 .. Len(refs)) /\ Len(refs) \in Nat
    BY SMTT(60), Z3T(60)
  <2>6. PICK m \in known : m = CHOOSE x \in known : \A k \in known : k <= x
    BY <2>4, <2>5, LastOf, ZenonT(60)
  <2>7. credsFunc(c) = multiCredsFuncs(refs[m])
    BY <2>2, <2>4, <2>6, ZenonT(60) DEF credsFunc
  <2>8. multiCredsFuncs(refs[m]) # {NoCred}
    BY <2>6, ZenonT(60)
  <2>9. NoCred \notin multiCredsFuncs(refs[m])
    BY <2>8, ZenonT(60) DEF multiCredsFuncs, kubeCredentials
  <2>10. QED
    BY <2>2, <2>7, <2>9, ZenonT(60)
<1>2. QED
  BY <1>1, InvHolds, PTL

\* Once its queue has drained the kubernetes keychain agrees with the cluster.
THEOREM KeychainAgrees == Spec => []KeychainSettles
<1>1. Inv => KeychainSettles
  BY ZenonT(60) DEF Inv, KeychainInv, KeychainSettles
<1>2. QED
  BY <1>1, InvHolds, PTL

=============================================================================
