----------------------------- MODULE Keychains -----------------------------
(***************************************************************************)
(* The credential providers of the snapshotter: the docker config file,    *)
(* the keychain that follows the kubernetes pull secrets through an        *)
(* informer and a work queue, and the keychain that overhears the CRI      *)
(* PullImage and RemoveImage calls.  A credential is a model value; NoCred *)
(* is the empty user name and secret, BadAuth an entry that cannot be      *)
(* parsed, for which a provider returns an error.                          *)
(***************************************************************************)

CONSTANTS Images, Secrets, Creds, NoCred, BadAuth, DockerCred

ASSUME KeychainAssumption == DockerCred \in Creds \cup {NoCred}

VARIABLES criConfig, secrets, kubeConfig, queue, syncing

keychainVars == <<criConfig, secrets, kubeConfig, queue, syncing>>

NotSyncing == <<>>

KeychainTypeOK ==
    /\ criConfig \in [Images -> Creds \cup {NoCred, BadAuth}]
    /\ secrets \in [Secrets -> Creds \cup {NoCred, BadAuth}]
    /\ kubeConfig \in [Secrets -> Creds \cup {NoCred}]
    /\ queue \subseteq Secrets
    /\ syncing = NotSyncing \/ syncing \in Secrets \X (Creds \cup {NoCred, BadAuth})

\* The images have been pulled, and the informer's first list is still empty.
KeychainInit ==
    /\ criConfig \in [Images -> Creds]
    /\ secrets = [s \in Secrets |-> NoCred]
    /\ kubeConfig = [s \in Secrets |-> NoCred]
    /\ queue = {}
    /\ syncing = NotSyncing

(***************************************************************************)
(* The CRI keychain keeps the authentication of the last pull of an image  *)
(* until the image is removed.                                             *)
(***************************************************************************)
PullImage(i, auth) ==
    /\ criConfig' = [criConfig EXCEPT ![i] = auth]
    /\ UNCHANGED <<secrets, kubeConfig, queue, syncing>>

RemoveImage(i) ==
    /\ criConfig' = [criConfig EXCEPT ![i] = NoCred]
    /\ UNCHANGED <<secrets, kubeConfig, queue, syncing>>

(***************************************************************************)
(* The kubernetes keychain.  The informer changes its index and then adds  *)
(* the secret's key to the work queue, which holds a key once; a key added *)
(* while it is processed is processed again.                               *)
(***************************************************************************)

\* A plausible slip: an event for the key being processed is not queued.
Slip_EventDropped(s, value) ==
    /\ secrets' = [secrets EXCEPT ![s] = value]
    /\ queue' = IF syncing # NotSyncing /\ syncing[1] = s THEN queue ELSE queue \cup {s}
    /\ UNCHANGED <<criConfig, kubeConfig, syncing>>

SecretEvent(s, value) ==
    /\ secrets' = [secrets EXCEPT ![s] = value]
    /\ queue' = queue \cup {s}
    /\ UNCHANGED <<criConfig, kubeConfig, syncing>>

\* processNextItem takes a key and looks its secret up in the index ...
processNextItem(s) ==
    /\ syncing = NotSyncing
    /\ s \in queue
    /\ queue' = queue \ {s}
    /\ syncing' = <<s, secrets[s]>>
    /\ UNCHANGED <<criConfig, secrets, kubeConfig>>

\* ... and applies what it found: a deleted secret is forgotten, one whose
\* data is missing or broken leaves the configuration as it was.
applySecret ==
    /\ syncing # NotSyncing
    /\ kubeConfig' = IF syncing[2] = BadAuth THEN kubeConfig
                     ELSE [kubeConfig EXCEPT ![syncing[1]] = syncing[2]]
    /\ syncing' = NotSyncing
    /\ UNCHANGED <<criConfig, secrets, queue>>

(***************************************************************************)
(* The credentials an image resolves to: the first provider, in the order  *)
(* in which they are configured, that answers with something.  The secrets *)
(* are looked through in the order of a Go map, hence a set of answers.    *)
(***************************************************************************)
kubeCredentials == {kubeConfig[s] : s \in Secrets} \ {NoCred}

multiCredsFuncs(i) ==
    CASE DockerCred # NoCred   -> {DockerCred}
      [] kubeCredentials # {}  -> kubeCredentials
      [] OTHER                 -> {criConfig[i]}

\* Once the queue has drained the keychain agrees with the cluster: it holds
\* the credentials of every readable secret and none of a deleted one,
\* although the worker reads a secret and stores it in two steps and events
\* arrive between them.
KeychainSettles ==
    queue = {} /\ syncing = NotSyncing
        => \A s \in Secrets : secrets[s] # BadAuth => kubeConfig[s] = secrets[s]
=============================================================================
