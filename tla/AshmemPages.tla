---------------------------- MODULE AshmemPages -----------------------------
(***************************************************************************)
(* What ashmem promises the users of an area, page by page: the kernel may *)
(* take back the contents of a page that is unpinned and of no other, and  *)
(* the pin that includes a page taken back says so.                        *)
(***************************************************************************)
EXTENDS Integers

CONSTANTS Areas, Pages

VARIABLES
  unpinned,     \* unpinned[a]: the pages whose contents may go
  lost          \* lost[a]: contents gone, and no pin has said so yet

vars == <<unpinned, lost>>

Init ==
  /\ unpinned = [a \in Areas |-> {}]
  /\ lost = [a \in Areas |-> {}]

Unpin(a, S) ==
  /\ unpinned' = [unpinned EXCEPT ![a] = @ \cup S]
  /\ UNCHANGED lost

\* The caller is told of every page of S that was lost.
Pin(a, S) ==
  /\ unpinned' = [unpinned EXCEPT ![a] = @ \ S]
  /\ lost' = [lost EXCEPT ![a] = @ \ S]

\* Memory is short: any unpinned pages, of several areas at once.
Purge(S) ==
  /\ \A a \in Areas : S[a] \subseteq unpinned[a]
  /\ lost' = [a \in Areas |-> lost[a] \cup S[a]]
  /\ UNCHANGED unpinned

Release(a) ==
  /\ unpinned' = [unpinned EXCEPT ![a] = {}]
  /\ lost' = [lost EXCEPT ![a] = {}]

Intervals == {m .. n : m \in Pages, n \in Pages}

Next ==
  \/ \E a \in Areas : Release(a) \/ \E S \in Intervals : Pin(a, S) \/ Unpin(a, S)
  \/ \E S \in [Areas -> SUBSET Pages] : Purge(S)

Spec == Init /\ [][Next]_vars
=============================================================================
