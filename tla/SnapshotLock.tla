---------------------------- MODULE SnapshotLock ----------------------------
(* mutateSnapshot and withTableLock of RedisService, for one table: a lock *)
(* in Redis that carries the token of the call that set it and expires by  *)
(* itself, and a read, a change and a write of the whole snapshot under    *)
(* it.  The change may wait for the database or for a Redis that has gone  *)
(* away, so it can outlive the lease; nothing tells the call, and its      *)
(* write carries no token.  The names in L let RedisAccessProofs extend    *)
(* this module next to Syncing.                                            *)
EXTENDS Naturals, FiniteSets

CONSTANTS
  Calls,     \* calls of mutateSnapshot for the table
  NoCall,    \* the lock is free
  Ttl,       \* ttlMs, in ticks
  MaxWait    \* maxWaitMs, in ticks

ASSUME LockAssumption ==
  /\ NoCall \notin Calls
  /\ Ttl \in Nat \ {0}
  /\ MaxWait \in Nat \ {0}

VARIABLES
  snap,      \* the snapshot: the calls whose change it contains
  result,    \* result[c]: what became of call c
  owner,     \* the call whose token is in the lock's key
  lease,     \* ticks until the key expires, 0 when there is none
  pc,        \* where call c is
  local,     \* the snapshot call c has read
  patience,  \* ticks until call c stops asking for the lock
  late,      \* calls whose lease ran out while they were still at work
  writer     \* the call that wrote the snapshot last

lvars == <<snap, result, owner, lease, pc, local, patience, late, writer>>

lockvars == <<owner, lease>>

\* Between the lock and its release: reading, in the function, writing, releasing.
Inside == {"read", "fn", "write", "release"}

Holds(c) == pc[c] \in Inside

LTypeOK ==
  /\ snap \subseteq Calls
  /\ result \in [Calls -> {"none", "applied", "unchanged", "failed"}]
  /\ owner \in Calls \union {NoCall}
  /\ lease \in 0 .. Ttl
  /\ owner = NoCall <=> lease = 0
  /\ pc \in [Calls -> {"idle", "attempt", "sleep", "end"} \union Inside]
  /\ local \in [Calls -> SUBSET Calls]
  /\ patience \in [Calls -> 0 .. MaxWait]
  /\ late \subseteq Calls
  /\ writer \in Calls \union {NoCall}

LInit ==
  /\ snap = {}
  /\ result = [c \in Calls |-> "none"]
  /\ owner = NoCall
  /\ lease = 0
  /\ pc = [c \in Calls |-> "idle"]
  /\ local = [c \in Calls |-> {}]
  /\ patience = [c \in Calls |-> 0]
  /\ late = {}
  /\ writer = NoCall

------------------------------------------------------------------------------
(* The steps of a call.                                                    *)

Goto(c, from, to) ==
  /\ pc[c] = from
  /\ pc' = [pc EXCEPT ![c] = to]

Finish(c, outcome) == result' = [result EXCEPT ![c] = outcome]

Call(c) ==
  /\ Goto(c, "idle", "attempt")
  /\ patience' = [patience EXCEPT ![c] = MaxWait]
  /\ UNCHANGED <<snap, result, lockvars, local, late, writer>>

\* Mutant: SET PX without NX.
AcquireAnyway(c) ==
  /\ Goto(c, "attempt", "read")
  /\ owner' = c
  /\ lease' = Ttl
  /\ UNCHANGED <<snap, result, local, patience, late, writer>>

\* SET NX PX: either the key is set with a fresh lease, or the call sleeps
\* 50 ms before it looks at its deadline.
Acquire(c) ==
  /\ lease = 0
  /\ Goto(c, "attempt", "read")
  /\ owner' = c
  /\ lease' = Ttl
  /\ UNCHANGED <<snap, result, local, patience, late, writer>>

Refused(c) ==
  /\ lease > 0
  /\ Goto(c, "attempt", "sleep")
  /\ UNCHANGED <<snap, result, lockvars, local, patience, late, writer>>

Retry(c) ==
  /\ patience[c] > 0
  /\ Goto(c, "sleep", "attempt")
  /\ UNCHANGED <<snap, result, lockvars, local, patience, late, writer>>

GiveUp(c) ==
  /\ patience[c] = 0
  /\ Goto(c, "sleep", "end")
  /\ Finish(c, "failed")
  /\ UNCHANGED <<snap, lockvars, local, patience, late, writer>>

GetSnapShot(c) ==
  /\ Goto(c, "read", "fn")
  /\ local' = [local EXCEPT ![c] = snap]
  /\ UNCHANGED <<snap, result, lockvars, patience, late, writer>>

\* fn returns a state, opts out with null, or throws.
Fn(c) ==
  /\ \/ Goto(c, "fn", "write") /\ UNCHANGED result
     \/ /\ Goto(c, "fn", "release")
        /\ \E outcome \in {"unchanged", "failed"} : Finish(c, outcome)
  /\ UNCHANGED <<snap, lockvars, local, patience, late, writer>>

WriteSnapshot(c) ==
  /\ Goto(c, "write", "release")
  /\ snap' = local[c] \union {c}
  /\ writer' = c
  /\ Finish(c, "applied")
  /\ UNCHANGED <<lockvars, local, patience, late>>

\* Mutant: a plain DEL, whoever the lock belongs to.
ReleaseTableLockPlain(c) ==
  /\ Goto(c, "release", "end")
  /\ owner' = NoCall
  /\ lease' = 0
  /\ UNCHANGED <<snap, result, local, patience, late, writer>>

\* The Lua script compares the token before it deletes the key.
ReleaseTableLock(c) ==
  /\ Goto(c, "release", "end")
  /\ IF owner = c
       THEN owner' = NoCall /\ lease' = 0
       ELSE UNCHANGED lockvars
  /\ UNCHANGED <<snap, result, local, patience, late, writer>>

------------------------------------------------------------------------------
(* Time, and the end of the server.                                        *)

\* The key disappears with its last tick, whether or not its call is done.
LeaseTick ==
  /\ lease > 0 \/ \E c \in Calls : pc[c] = "sleep" /\ patience[c] > 0
  /\ IF lease > 1
       THEN lease' = lease - 1 /\ UNCHANGED <<owner, late>>
       ELSE /\ lease' = 0
            /\ owner' = NoCall
            /\ late' = late \union {c \in Calls : owner = c /\ Holds(c)}
  /\ patience' = [c \in Calls |-> IF patience[c] > 0 THEN patience[c] - 1 ELSE 0]
  /\ UNCHANGED <<snap, result, pc, local, writer>>

\* The server dies with every call under way; the key stays.
Crash ==
  LET running == {c \in Calls : pc[c] \notin {"idle", "end"}}
  IN /\ running # {}
     /\ pc' = [c \in Calls |-> IF c \in running THEN "end" ELSE pc[c]]
     /\ result' = [c \in Calls |-> IF c \in running /\ result[c] = "none"
                                     THEN "failed" ELSE result[c]]
     /\ UNCHANGED <<snap, lockvars, local, patience, late, writer>>

Step(c) ==
  \/ Acquire(c) \/ Refused(c) \/ Retry(c) \/ GiveUp(c)
  \/ GetSnapShot(c) \/ Fn(c) \/ WriteSnapshot(c) \/ ReleaseTableLock(c)

LNext ==
  \/ \E c \in Calls : Call(c) \/ Step(c)
  \/ LeaseTick
  \/ Crash

LSpec == LInit /\ [][LNext]_lvars

------------------------------------------------------------------------------
(* Properties.                                                             *)

\* Of two calls between lock and release, one has outlived its lease.  A
\* release that deleted the key of another call would let a third one in next
\* to a call that is in time (the comment on releaseTableLock).
InTimeAlone ==
  \A c, d \in Calls : Holds(c) /\ Holds(d) /\ c # d => {c, d} \cap late # {}

\* What an expired lease can cost: a call that is in time overwrites a state it
\* has not read only when a late call has written that state behind its back.
\* Calls that keep within the lease never overwrite each other, however many
\* late ones there are about (mutateSnapshot).
OverwritesOnlyLate ==
  \A c \in Calls : pc[c] = "write" /\ c \notin late /\ local[c] # snap => writer \in late

\* As long as no lease has run out, mutateSnapshot is one atomic step that
\* starts from everything the calls before it have written.
Atomic == INSTANCE AtomicSnapshot

MutationsAtomic ==
  /\ Atomic!AInit
  /\ [][late' = {} => Atomic!ANext \/ UNCHANGED Atomic!avars]_lvars
=============================================================================
