----------------------------- MODULE LogPromise -----------------------------
(***************************************************************************)
(* What a log of drivers/staging/android/logger.c promises: every open file*)
(* reads whole entries, in the order they were written and each at most    *)
(* once.  Only a writer drops entries, the oldest ones and before it adds  *)
(* its own; it adds one entry for everybody, or none if it fails.          *)
(***************************************************************************)
EXTENDS Naturals, Sequences

CONSTANTS
  Readers,          \* files that may be open for reading
  Entry,            \* log entries
  NewReader         \* stands for the place where a new reader starts

VARIABLES
  unread,           \* unread[v]: the entries v has still to read
  writing           \* a write is under way

vars == <<unread, writing>>

Init ==
  /\ unread = [v \in {NewReader} |-> <<>>]
  /\ writing = FALSE

\* s with some of its oldest entries gone.
Suffixes(s) == {SubSeq(s, k, Len(s)) : k \in 1 .. Len(s) + 1}

Begin ==
  /\ ~writing
  /\ writing' = TRUE
  /\ DOMAIN unread' = DOMAIN unread
  /\ \A v \in DOMAIN unread : unread'[v] \in Suffixes(unread[v])

Commit(e) ==
  /\ writing
  /\ writing' = FALSE
  /\ unread' = [v \in DOMAIN unread |-> Append(unread[v], e)]

Abort ==
  /\ writing
  /\ writing' = FALSE
  /\ UNCHANGED unread

Read(r) ==
  /\ ~writing
  /\ r \in DOMAIN unread
  /\ unread[r] # <<>>
  /\ unread' = [unread EXCEPT ![r] = Tail(@)]
  /\ UNCHANGED writing

Flush ==
  /\ ~writing
  /\ unread' = [v \in DOMAIN unread |-> <<>>]
  /\ UNCHANGED writing

Open(r) ==
  /\ ~writing
  /\ r \notin DOMAIN unread
  /\ unread' = [v \in DOMAIN unread \cup {r} |-> IF v = r THEN unread[NewReader] ELSE unread[v]]
  /\ UNCHANGED writing

Release(r) ==
  /\ r \in DOMAIN unread
  /\ unread' = [v \in DOMAIN unread \ {r} |-> unread[v]]
  /\ UNCHANGED writing

Next ==
  \/ Begin
  \/ \E e \in Entry : Commit(e)
  \/ Abort
  \/ Flush
  \/ \E r \in Readers : Read(r) \/ Open(r) \/ Release(r)

Spec == Init /\ [][Next]_vars
=============================================================================
