--------------------------- MODULE AtomicSnapshot ---------------------------
(* What RedisService.mutateSnapshot promises its callers: a call changes   *)
(* the snapshot of a table in one step, from the state it was given to the *)
(* state it returns, with nothing of another call in between; or it leaves *)
(* the snapshot alone, because its function opted out, threw, never got    *)
(* the lock, or died with the server.                                      *)
EXTENDS FiniteSets

CONSTANT Calls   \* calls of mutateSnapshot for one table

VARIABLES
  snap,     \* the snapshot, as the set of calls whose change it contains
  result    \* result[c]: what became of call c

avars == <<snap, result>>

AInit ==
  /\ snap = {}
  /\ result = [c \in Calls |-> "none"]

Mutate(c) ==
  /\ result[c] = "none"
  /\ snap' = snap \union {c}
  /\ result' = [result EXCEPT ![c] = "applied"]

Leave(S) ==
  /\ \A c \in S : result[c] = "none"
  /\ \E r \in {"unchanged", "failed"} :
       result' = [c \in Calls |-> IF c \in S THEN r ELSE result[c]]
  /\ UNCHANGED snap

ANext == (\E c \in Calls : Mutate(c)) \/ (\E S \in SUBSET Calls : Leave(S))

ASpec == AInit /\ [][ANext]_avars
=============================================================================
