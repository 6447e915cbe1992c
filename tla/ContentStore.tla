---------------------------- MODULE ContentStore ----------------------------
(***************************************************************************)
(* The containerd content store as soci/store/store.go drives it.  A value *)
(* `st` of the store is a record:                                          *)
(*   refs    each blob the store holds, with the blobs its                 *)
(*           containerd.io/gc.ref.content labels name;                     *)
(*   roots   the blobs labelled containerd.io/gc.root;                     *)
(*   leases  for each owner of a lease, the blobs created under it.        *)
(* A blob is its own digest: Push verifies what it stores.                 *)
(***************************************************************************)
EXTENDS FiniteSets, TLC

NewStore(refs, owners) == [refs |-> refs, roots |-> {}, leases |-> [o \in owners |-> {}]]

Exists(st, blob) == blob \in DOMAIN st.refs

Slip_PushWithoutLease(st, owner, blob) ==
    IF Exists(st, blob) THEN st ELSE [st EXCEPT !.refs = @ @@ (blob :> {})]

\* Content that is there already is left alone (ErrAlreadyExists): it does not
\* come under the caller's lease.
Push(st, owner, blob) ==
    IF Exists(st, blob) THEN st
    ELSE [st EXCEPT !.refs = @ @@ (blob :> {}), !.leases[owner] = @ \cup {blob}]

Slip_NoRoot(st, blob) == st

LabelGCRoot(st, blob) == [st EXCEPT !.roots = @ \cup {blob}]

LabelGCRefContent(st, blob, blobs) == [st EXCEPT !.refs[blob] = @ \cup blobs]

Only(st, blobs) ==
    [st EXCEPT !.refs = [b \in DOMAIN st.refs \cap blobs |-> st.refs[b]], !.roots = @ \cap blobs]

Delete(st, blob) == Only(st, DOMAIN st.refs \ {blob})

\* The blobs of the store that the labels lead to from those in `blobs`.
RECURSIVE Reached(_, _)
Reached(st, blobs) ==
    LET more == (blobs \cup UNION {st.refs[b] : b \in blobs}) \cap DOMAIN st.refs
    IN  IF more = blobs THEN blobs ELSE Reached(st, more)

\* What containerd's garbage collector keeps, given the blobs that images name.
Live(st, named) ==
    Reached(st, (named \cup st.roots \cup UNION {st.leases[o] : o \in DOMAIN st.leases}) \cap DOMAIN st.refs)

Collect(st, named) == Only(st, Live(st, named))

\* The cleanup function of BatchOpen.
EndBatch(st, owner) == [st EXCEPT !.leases[owner] = {}]

=============================================================================
