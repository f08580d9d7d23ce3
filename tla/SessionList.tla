----------------------------- MODULE SessionList ----------------------------
(***************************************************************************)
(* LinkedListElement: the sessions of a streamer in a ring of pointers,    *)
(* with m_Clients, a member of the streamer, as its head.                  *)
(***************************************************************************)
EXTENDS Naturals, FiniteSets

CONSTANTS
  Sessions,  \* session objects
  Clients,      \* m_Clients
  Freed      \* what a pointer of a deleted object reads as: anything

ASSUME ListAssumption ==
  /\ Clients \notin Sessions /\ Freed \notin Sessions /\ Clients # Freed
  /\ IsFiniteSet(Sessions)

VARIABLES
  alive,  \* the session objects that are not deleted
  next,   \* m_Next
  prev    \* m_Prev

list == <<alive, next, prev>>

Element == Sessions \cup {Clients}

ListTypeOK ==
  /\ alive \subseteq Sessions
  /\ next \in [Element -> Element \cup {Freed}]
  /\ prev \in [Element -> Element \cup {Freed}]

\* the elements that may be followed
Linked == alive \cup {Clients}

NotEmpty == next[Clients] # Clients

\* mutant: the old last element keeps its m_Next
AppendHalf(s) ==
  /\ alive' = alive \cup {s}
  /\ prev' = [prev EXCEPT ![s] = prev[Clients], ![Clients] = s]
  /\ next' = [next EXCEPT ![Clients] = IF prev[Clients] = Clients THEN s ELSE @, ![s] = Clients]

\* the constructor adds to the end of the list
AppendElement(s) ==
  /\ alive' = alive \cup {s}
  /\ prev' = [prev EXCEPT ![s] = prev[Clients], ![Clients] = s]
  /\ next' = [next EXCEPT ![prev[Clients]] = s, ![s] = Clients]

\* mutant: only the next element learns of it
RemoveHalf(s) ==
  /\ alive' = alive \ {s}
  /\ prev' = [prev EXCEPT ![next[s]] = prev[s], ![s] = Freed]
  /\ next' = [next EXCEPT ![s] = Freed]

\* the destructor links both neighbours; the object is freed after it
RemoveElement(s) ==
  /\ alive' = alive \ {s}
  /\ prev' = [prev EXCEPT ![next[s]] = prev[s], ![s] = Freed]
  /\ next' = [next EXCEPT ![prev[s]] = next[s], ![s] = Freed]

-----------------------------------------------------------------------------
(* The list as a sequence.                                                 *)

\* the element n pointers behind e
Behind(e, n) ==
  LET follow[i \in 0 .. n] ==
        IF i = 0 THEN e
        ELSE IF follow[i - 1] = Freed THEN Freed ELSE next[follow[i - 1]]
  IN  follow[n]

\* the sessions from e on; no longer than the number of sessions
ChainFrom(e) ==
  LET ends == {n \in 0 .. Cardinality(Sessions) : Behind(e, n) = Clients}
      len  == IF ends = {} THEN Cardinality(Sessions)
              ELSE CHOOSE n \in ends : \A m \in ends : n <= m
  IN  [i \in 1 .. len |-> Behind(e, i - 1)]

\* The pointers of the living elements lead to living elements, there and back:
\* what every walk over m_Clients relies on (constructor, destructor).
Ring ==
  \A e \in Linked :
    /\ next[e] \in Linked /\ prev[e] \in Linked
    /\ next[prev[e]] = e /\ prev[next[e]] = e
=============================================================================
