----------------------------- MODULE SeatEntry -----------------------------
(* How people get onto and off the seats of one table: enterSeat and        *)
(* claimSeat of EntryService, releaseSeats of SessionService, the           *)
(* elimination at the end of a hand, and the phones that open a socket with *)
(* the token of an entry.                                                   *)
(*                                                                          *)
(* A seat is kept four times: the row in the database, the occupant in the  *)
(* snapshot, a bit and a context in Redis.  The row is created without the  *)
(* table lock, the occupant is written in it, bit and context after it; the *)
(* two ways off the seat do all of it in the lock.  The lock is a lock here *)
(* (SnapshotLock has what an expired lease costs).                          *)
EXTENDS Naturals, FiniteSets

CONSTANTS
  Users,      \* participants of the tournament
  Seats,
  Phones,     \* each enters once, and connects with the token it gets
  Nobody,     \* no user, no seat, no phone
  MaxFaults   \* bound: faults that happen

ASSUME NobodyAssumption == Nobody \notin Users \union Seats \union Phones
ASSUME HolderAssumption == Phones \intersect {"free", "release", "hand"} = {}
ASSUME BoundAssumption == MaxFaults \in Nat

VARIABLES
  rows,       \* database: TablePlayer
  status,     \* database: TournamentParticipation.status
  newest,     \* database: seatTokenVersion, as the phone whose token has it
  snap,       \* Redis: the snapshot
  bits,       \* Redis: the seats of the bitmap, if there is one
  context,    \* Redis: seat in the context of each user
  lock,       \* holder of the table lock
  phone,      \* the entries, and the sockets they lead to
  release,    \* releaseSeats
  hand,       \* resolveWinners and finishHand, in the lock
  deferred,   \* mirrors that wait for Redis, by user and seat
  hurt,       \* seats on which a fault has hit since somebody last entered
  faults

vars == <<rows, status, newest, snap, bits, context, lock, phone, release, hand,
          deferred, hurt, faults>>

db    == <<rows, status, newest>>
redis == <<snap, bits, context>>
calls == <<phone, release, hand, deferred>>

User == Users \union {Nobody}
Seat == Seats \union {Nobody}

Idle(pc) == [pc |-> pc, user |-> Nobody, seat |-> Nobody, seated |-> FALSE, others |-> FALSE]

\* In claimSeat, and with a socket in tableSessions.
Claiming  == {"create", "claim", "write", "context", "bit"}
Connected == {"added", "live"}

NoSnapshot == [there |-> FALSE, phase |-> "WAITING", occ |-> [s \in Seats |-> Nobody],
               dealt |-> {}, bust |-> {}]
EmptyTable == [NoSnapshot EXCEPT !.there = TRUE]
NoBitmap   == [there |-> FALSE, on |-> {}]
NoRelease  == [pc |-> "idle", seats |-> {}, users |-> {}]

\* What is remembered of what went wrong.  torn: a release broke off behind its
\* transaction; late: a mirror was under way when its seat was taken away;
\* raced: somebody got a row who was eliminated since he was let in
FaultKinds == {"torn", "late", "raced"}

TypeOK ==
  /\ rows \in [Seats -> User]
  /\ status \in [Users -> {"waiting", "playing", "released", "eliminated"}]
  /\ newest \in [Users -> Phones \union {Nobody}]
  /\ snap \in [there : BOOLEAN, phase : {"WAITING", "BETTING", "HAND_END"},
               occ : [Seats -> User], dealt : SUBSET Users, bust : SUBSET Seats]
  /\ bits \in [there : BOOLEAN, on : SUBSET Seats]
  /\ context \in [Users -> Seat]
  /\ lock \in Phones \union {"free", "release", "hand"}
  /\ phone \in [Phones ->
       [pc : {"idle", "seat", "table", "bump", "revoke", "token", "checked", "end"}
               \union Claiming \union Connected,
        user : User, seat : Seat, seated : BOOLEAN, others : BOOLEAN]]
  /\ release \in [pc : {"idle", "tx", "mirror", "write", "revoke"},
                  seats : SUBSET Seats, users : SUBSET Users]
  /\ hand \in {"idle", "eliminate", "finish", "write"}
  /\ deferred \subseteq Users \X Seats
  /\ hurt \subseteq Seats
  /\ faults \in [count : 0 .. MaxFaults, kinds : SUBSET FaultKinds]

SeatOf(u, occ) == {s \in Seats : occ[s] = u}

Taken == {s \in Seats : rows[s] # Nobody}

\* Any number of people sit already, and their seats are shown.
Init ==
  /\ rows \in [Seats -> User]
  /\ \A s, t \in Seats : rows[s] = rows[t] /\ s # t => rows[s] = Nobody
  /\ status = [u \in Users |-> IF SeatOf(u, rows) = {} THEN "waiting" ELSE "playing"]
  /\ newest = [u \in Users |-> Nobody]
  /\ snap = [EmptyTable EXCEPT !.occ = rows]
  /\ bits = [there |-> TRUE, on |-> Taken]
  /\ context = [u \in Users |-> IF SeatOf(u, rows) = {} THEN Nobody
                                ELSE CHOOSE s \in Seats : rows[s] = u]
  /\ lock = "free"
  /\ phone = [p \in Phones |-> Idle("idle")]
  /\ release = NoRelease /\ hand = "idle"
  /\ deferred = {} /\ hurt = {}
  /\ faults = [count |-> 0, kinds |-> {}]

Fault(kinds) ==
  /\ faults.count < MaxFaults
  /\ faults' = [count |-> faults.count + 1, kinds |-> faults.kinds \union kinds]

Without(kinds) == faults.kinds \intersect kinds = {}

At(p, pc) == phone[p].pc = pc
Goto(p, pc) == phone' = [phone EXCEPT ![p].pc = pc]
End(p) == phone' = [phone EXCEPT ![p] = Idle("end")]

-----------------------------------------------------------------------------
(* enterSeat: three reads, the row, the occupant, the mirror, the token.    *)

\* Finished participations and closed tournaments are refused (a tournament does
\* not close here).
EnterSeat(p, u, s) ==
  /\ At(p, "idle")
  /\ status[u] # "eliminated"
  /\ phone' = [phone EXCEPT ![p] = [Idle("seat") EXCEPT !.user = u, !.seat = s]]
  /\ UNCHANGED <<db, redis, lock, release, hand, deferred, hurt, faults>>

FindSeat(p) ==
  LET mine == SeatOf(phone[p].user, rows)
  IN /\ At(p, "seat")
     /\ IF mine \subseteq {phone[p].seat}
          THEN phone' = [phone EXCEPT ![p].pc = "table", ![p].seated = mine # {}]
          ELSE End(p)
     /\ UNCHANGED <<db, redis, lock, release, hand, deferred, hurt, faults>>

\* shouldBlockEmptySnapshot: a table with people on it and no snapshot has lost it.
FindTable(p) ==
  /\ At(p, "table")
  /\ IF ~ snap.there /\ Taken # {}
       THEN End(p)
       ELSE phone' = [phone EXCEPT ![p].others = Taken # {}, ![p].seated = FALSE,
                        ![p].pc = IF phone[p].seated THEN "claim" ELSE "create"]
  /\ UNCHANGED <<db, redis, lock, release, hand, deferred, hurt, faults>>

\* The transaction: both unique constraints hold or it is refused.
CreateRow(p) ==
  LET u == phone[p].user
      s == phone[p].seat
  IN /\ At(p, "create")
     /\ IF rows[s] = Nobody /\ SeatOf(u, rows) = {}
          THEN /\ rows' = [rows EXCEPT ![s] = u]
               /\ status' = [status EXCEPT ![u] = IF @ \in {"waiting", "released"}
                                                    THEN "playing" ELSE @]
               /\ faults' = IF status[u] = "eliminated"
                              THEN [faults EXCEPT !.kinds = @ \union {"raced"}] ELSE faults
               /\ Goto(p, "claim")
          ELSE End(p) /\ UNCHANGED <<rows, status, faults>>
     /\ UNCHANGED <<newest, redis, lock, release, hand, deferred, hurt>>

Mirror(p) == phone' = [phone EXCEPT ![p].pc = "context", ![p].others = FALSE]

\* Mutant: whoever has come this far owns the seat.
OwnSeatUnchecked(p) ==
  LET u == phone[p].user
      s == phone[p].seat
  IN /\ At(p, "claim")
     /\ lock = "free"
     /\ IF ~ snap.there /\ phone[p].others
          THEN End(p) /\ UNCHANGED lock
          ELSE IF snap.occ[s] = u
            THEN Mirror(p) /\ UNCHANGED lock
            ELSE Goto(p, "write") /\ lock' = p
     /\ hurt' = IF rows[s] # u THEN hurt
                ELSE IF phone'[p].pc # "end" /\ bits.there THEN hurt \ {s}
                ELSE hurt \union {s}
     /\ UNCHANGED <<db, redis, release, hand, deferred, faults>>

\* In the lock: is the row mine, and is there a snapshot?  An occupant who is not
\* the owner is left over from an elimination and is written over.
OwnSeat(p) ==
  LET u == phone[p].user
      s == phone[p].seat
  IN /\ At(p, "claim")
     /\ lock = "free"
     /\ IF rows[s] # u \/ (~ snap.there /\ phone[p].others)
          THEN End(p) /\ UNCHANGED lock
          ELSE IF snap.occ[s] = u
            THEN Mirror(p) /\ UNCHANGED lock
            ELSE Goto(p, "write") /\ lock' = p
     /\ hurt' = IF rows[s] # u THEN hurt
                ELSE IF phone'[p].pc # "end" /\ bits.there THEN hurt \ {s}
                ELSE hurt \union {s}
     /\ UNCHANGED <<db, redis, release, hand, deferred, faults>>

WriteSeat(p) ==
  /\ At(p, "write")
  /\ snap' = [snap EXCEPT !.there = TRUE, !.occ[phone[p].seat] = phone[p].user,
                          !.bust = @ \ {phone[p].seat}]
  /\ Mirror(p) /\ lock' = "free"
  /\ UNCHANGED <<db, bits, context, release, hand, deferred, hurt, faults>>

\* The lock is not obtained, or Redis fails in it: 409 or 503, and the row stays.
EntryFails(p) ==
  LET s == phone[p].seat
  IN /\ phone[p].pc \in {"claim", "write"}
     /\ Fault({})
     /\ hurt' = IF rows[s] = phone[p].user THEN hurt \union {s} ELSE hurt
     /\ End(p) /\ lock' = IF lock = p THEN "free" ELSE lock
     /\ UNCHANGED <<db, redis, release, hand, deferred>>

-----------------------------------------------------------------------------
(* The mirror, behind the lock; it does not decide about the entry.         *)

\* UPDATE_SEAT_BIT and its _MANY leave a bitmap that is not there alone.
Bits(on) == bits' = IF bits.there THEN [bits EXCEPT !.on = on] ELSE bits

Token(p) == phone' = [phone EXCEPT ![p].pc = "bump", ![p].seat = Nobody]

MirrorContext(p) ==
  /\ At(p, "context")
  /\ context' = [context EXCEPT ![phone[p].user] = phone[p].seat]
  /\ Goto(p, "bit")
  /\ UNCHANGED <<db, snap, bits, lock, release, hand, deferred, hurt, faults>>

MirrorBit(p) ==
  /\ At(p, "bit")
  /\ Bits(bits.on \union {phone[p].seat})
  /\ Token(p)
  /\ UNCHANGED <<db, snap, context, lock, release, hand, deferred, hurt, faults>>

\* mirrorAfterCommit: a failure is logged; in an outage the mirror is put off.
MirrorFails(p) ==
  LET s == phone[p].seat
  IN /\ phone[p].pc \in {"context", "bit"}
     /\ \/ /\ Fault({}) /\ UNCHANGED deferred
           /\ hurt' = IF rows[s] = phone[p].user THEN hurt \union {s} ELSE hurt
        \/ /\ Fault({}) /\ UNCHANGED hurt
           /\ deferred' = deferred \union {<<phone[p].user, s>>}
     /\ Token(p)
     /\ UNCHANGED <<db, redis, lock, release, hand>>

WhenUp(u, s) ==
  /\ <<u, s>> \in deferred
  /\ context' = [context EXCEPT ![u] = s]
  /\ Bits(bits.on \union {s})
  /\ deferred' = deferred \ {<<u, s>>}
  /\ UNCHANGED <<db, snap, lock, phone, release, hand, hurt, faults>>

-----------------------------------------------------------------------------
(* The token and its socket: the last entry wins.                           *)

BumpVersion(p) ==
  /\ At(p, "bump")
  /\ newest' = [newest EXCEPT ![phone[p].user] = p]
  /\ Goto(p, "revoke")
  /\ UNCHANGED <<rows, status, redis, lock, release, hand, deferred, hurt, faults>>

\* handleSeatTokensRevoked closes what is registered at this moment.
Revoked(U, q) == phone[q].pc \in Connected /\ phone[q].user \in U

CloseSockets(U) == [q \in Phones |-> IF Revoked(U, q) THEN Idle("end") ELSE phone[q]]

RevokeTokens(p) ==
  /\ At(p, "revoke")
  /\ phone' = [CloseSockets({phone[p].user}) EXCEPT ![p].pc = "token"]
  /\ UNCHANGED <<db, redis, lock, release, hand, deferred, hurt, faults>>

Current(p) == newest[phone[p].user] = p

AssertIdentityCurrent(p) ==
  /\ At(p, "token")
  /\ IF Current(p) THEN Goto(p, "checked") ELSE End(p)
  /\ UNCHANGED <<db, redis, lock, release, hand, deferred, hurt, faults>>

\* assertTableAccess looks for the user in the snapshot; then addToMap.
AddToMap(p) ==
  /\ At(p, "checked")
  /\ IF snap.there /\ SeatOf(phone[p].user, snap.occ) # {}
       THEN Goto(p, "added") ELSE End(p)
  /\ UNCHANGED <<db, redis, lock, release, hand, deferred, hurt, faults>>

\* Mutant: no second look.
CloseIfStaleNever(p) ==
  /\ At(p, "added")
  /\ Goto(p, "live")
  /\ UNCHANGED <<db, redis, lock, release, hand, deferred, hurt, faults>>

CloseIfStale(p) ==
  /\ At(p, "added")
  /\ IF Current(p) THEN Goto(p, "live") ELSE End(p)
  /\ UNCHANGED <<db, redis, lock, release, hand, deferred, hurt, faults>>

\* The network drops the socket; the phone comes back with its token.
Disconnect(p) ==
  /\ At(p, "live")
  /\ Goto(p, "token")
  /\ UNCHANGED <<db, redis, lock, release, hand, deferred, hurt, faults>>

-----------------------------------------------------------------------------
(* releaseSeats.                                                            *)

\* A mirror of an entry that is still under way when its seat is taken away.
LateMirrors(U) ==
  IF \/ \E p \in Phones : phone[p].user \in U /\ phone[p].pc \in {"context", "bit"}
     \/ \E d \in deferred : d[1] \in U
  THEN [faults EXCEPT !.kinds = @ \union {"late"}] ELSE faults

ReleaseSeats(S) ==
  /\ release.pc = "idle" /\ lock = "free"
  /\ snap.there /\ snap.phase = "WAITING"
  /\ \A s \in S : snap.occ[s] # Nobody
  /\ release' = [pc |-> "tx", seats |-> S, users |-> {snap.occ[s] : s \in S}]
  /\ lock' = "release"
  /\ UNCHANGED <<db, redis, phone, hand, deferred, hurt, faults>>

ReleaseRows ==
  LET S == release.seats
      U == release.users
  IN /\ release.pc = "tx"
     /\ IF (\A s \in S : rows[s] = snap.occ[s]) /\ (\A u \in U : status[u] = "playing")
          THEN /\ rows' = [s \in Seats |-> IF s \in S THEN Nobody ELSE rows[s]]
               /\ status' = [u \in Users |-> IF u \in U THEN "released" ELSE status[u]]
               /\ newest' = [u \in Users |-> IF u \in U THEN Nobody ELSE newest[u]]
               /\ release' = [release EXCEPT !.pc = "mirror"]
               /\ faults' = LateMirrors(U)
               /\ hurt' = hurt \ S
               /\ UNCHANGED lock
          ELSE release' = NoRelease /\ lock' = "free" /\ UNCHANGED <<db, hurt, faults>>
     /\ UNCHANGED <<redis, phone, hand, deferred>>

\* Mutant: bits and contexts are cleared behind the lock.
ReleaseMirrorUnlocked ==
  /\ \/ /\ release.pc = "mirror"
        /\ release' = [release EXCEPT !.pc = "write"]
        /\ UNCHANGED <<bits, context>>
     \/ /\ release.pc = "revoke"
        /\ release' = NoRelease
        /\ Bits(bits.on \ release.seats)
        /\ context' = [u \in Users |-> IF u \in release.users THEN Nobody ELSE context[u]]
  /\ UNCHANGED <<db, snap, lock, phone, hand, deferred, hurt, faults>>

ReleaseMirror ==
  /\ release.pc = "mirror"
  /\ Bits(bits.on \ release.seats)
  /\ context' = [u \in Users |-> IF u \in release.users THEN Nobody ELSE context[u]]
  /\ release' = [release EXCEPT !.pc = "write"]
  /\ UNCHANGED <<db, snap, lock, phone, hand, deferred, hurt, faults>>

ReleaseWrite ==
  /\ release.pc = "write"
  /\ snap' = [snap EXCEPT !.occ = [s \in Seats |-> IF s \in release.seats THEN Nobody ELSE @[s]]]
  /\ release' = [release EXCEPT !.pc = "revoke"]
  /\ lock' = "free"
  /\ UNCHANGED <<db, bits, context, phone, hand, deferred, hurt, faults>>

ReleaseRevoke ==
  /\ release.pc = "revoke"
  /\ phone' = CloseSockets(release.users)
  /\ release' = NoRelease
  /\ UNCHANGED <<db, redis, lock, hand, deferred, hurt, faults>>

\* Redis fails behind the transaction: no snapshot is written, nobody is told.
ReleaseTorn ==
  /\ release.pc \in {"mirror", "write"}
  /\ Fault({"torn"})
  /\ release' = NoRelease /\ lock' = "free"
  /\ UNCHANGED <<db, redis, phone, hand, deferred, hurt>>

-----------------------------------------------------------------------------
(* The hand, as far as it moves people.                                     *)

Occupants == {snap.occ[s] : s \in Seats} \ {Nobody}

StartPreFlop ==
  /\ lock = "free" /\ snap.there /\ snap.phase = "WAITING"
  /\ Cardinality(Occupants) >= 2
  /\ snap' = [snap EXCEPT !.phase = "BETTING", !.dealt = Occupants]
  /\ UNCHANGED <<db, bits, context, lock, calls, hurt, faults>>

\* The pot is split; whoever has no chips left is out (rebuys: HandEnd).  Who it
\* is goes with the seat: a stack of nothing lies there.
ResolveWinners(B) ==
  /\ lock = "free" /\ snap.there /\ snap.phase = "BETTING"
  /\ \A s \in B : snap.occ[s] \in snap.dealt
  /\ ~ snap.dealt \subseteq {snap.occ[s] : s \in B}
  /\ snap' = [snap EXCEPT !.phase = "HAND_END", !.dealt = {}, !.bust = B]
  /\ UNCHANGED <<db, bits, context, lock, calls, hurt, faults>>

Broke == {snap.occ[s] : s \in snap.bust}

\* The transaction of eliminatePlayer, for the broke in the snapshot: it deletes
\* whatever row they have at this table.
EliminatePlayer(next) ==
  LET B == Broke
  IN /\ lock = "free" /\ snap.there /\ snap.phase = "HAND_END"
     /\ lock' = "hand" /\ hand' = next
     /\ rows' = [s \in Seats |-> IF rows[s] \in B THEN Nobody ELSE rows[s]]
     /\ status' = [u \in Users |-> IF u \in B THEN "eliminated" ELSE status[u]]
     /\ faults' = LateMirrors(B)
     /\ hurt' = {s \in hurt : rows[s] \notin B}
     /\ UNCHANGED <<newest, redis, phone, release, deferred>>

\* ... and its bits and contexts, behind the commit.
EliminateMirror ==
  /\ Bits(bits.on \ snap.bust)
  /\ context' = [u \in Users |-> IF u \in Broke THEN Nobody ELSE context[u]]

\* resolveWinners, third step: the occupants stay, and the lock is let go.
Eliminate == EliminatePlayer("eliminate")

EliminateDone ==
  /\ hand = "eliminate"
  /\ EliminateMirror
  /\ hand' = "idle" /\ lock' = "free"
  /\ UNCHANGED <<db, snap, phone, release, deferred, hurt, faults>>

\* finishHand eliminates once more, before it prepares the next hand.
FinishHand == EliminatePlayer("finish")

FinishMirror ==
  /\ hand = "finish"
  /\ EliminateMirror
  /\ hand' = "write"
  /\ UNCHANGED <<db, snap, lock, phone, release, deferred, hurt, faults>>

\* Mutant: initTable keeps the busted.
InitTableKeeps ==
  /\ hand = "write"
  /\ snap' = [snap EXCEPT !.phase = "WAITING", !.bust = {}]
  /\ hand' = "idle" /\ lock' = "free"
  /\ UNCHANGED <<db, bits, context, phone, release, deferred, hurt, faults>>

InitTable ==
  /\ hand = "write"
  /\ snap' = [snap EXCEPT !.phase = "WAITING", !.bust = {},
                !.occ = [s \in Seats |-> IF s \in snap.bust THEN Nobody ELSE @[s]]]
  /\ hand' = "idle" /\ lock' = "free"
  /\ UNCHANGED <<db, bits, context, phone, release, deferred, hurt, faults>>

-----------------------------------------------------------------------------
(* Redis loses its data; the server dies and boots.                         *)

LoseRedis ==
  /\ lock = "free"
  /\ snap.there /\ Fault({})
  /\ snap' = NoSnapshot /\ bits' = NoBitmap
  /\ context' = [u \in Users |-> Nobody]
  /\ hurt' = Taken
  /\ UNCHANGED <<db, lock, calls>>

\* recoverTournament and rebuildTable, before the first request.
Boot ==
  LET keep == [s \in Seats |-> IF rows[s] # Nobody /\ status[rows[s]] = "playing"
                                 THEN rows[s] ELSE Nobody]
      none == Taken = {}
      on(occ) == [there |-> TRUE, on |-> {s \in Seats : occ[s] # Nobody}]
      at(u) == CHOOSE s \in Seats : keep[s] = u
  IN IF snap.there
     THEN /\ bits' = IF bits.there THEN bits
                     ELSE IF none THEN [there |-> TRUE, on |-> {}] ELSE on(snap.occ)
          /\ UNCHANGED <<rows, snap, context>>
     ELSE /\ snap' = [EmptyTable EXCEPT !.occ = keep]
          /\ bits' = IF none /\ bits.there THEN bits ELSE on(keep)
          /\ rows' = keep
          /\ context' = [u \in Users |-> IF SeatOf(u, keep) # {} THEN at(u) ELSE context[u]]

Restart ==
  /\ Fault(IF release.pc \in {"mirror", "write"} THEN {"torn"} ELSE {})
  /\ Boot
  /\ lock' = "free"
  /\ phone' = [p \in Phones |->
                 IF phone[p].pc \in {"token", "checked"} \union Connected
                   THEN [phone[p] EXCEPT !.pc = "token"]
                 ELSE IF At(p, "idle") THEN phone[p] ELSE Idle("end")]
  /\ release' = NoRelease /\ hand' = "idle" /\ deferred' = {}
  /\ hurt' = Taken
  /\ UNCHANGED <<status, newest>>

Phone(p) ==
  \/ FindSeat(p) \/ FindTable(p) \/ CreateRow(p) \/ OwnSeat(p) \/ WriteSeat(p)
  \/ MirrorContext(p) \/ MirrorBit(p) \/ BumpVersion(p) \/ RevokeTokens(p)
  \/ AssertIdentityCurrent(p) \/ AddToMap(p) \/ CloseIfStale(p) \/ Disconnect(p)
  \/ EntryFails(p) \/ MirrorFails(p)

Next ==
  \/ \E p \in Phones : Phone(p) \/ \E u \in Users, s \in Seats : EnterSeat(p, u, s)
  \/ \E u \in Users, s \in Seats : WhenUp(u, s)
  \/ \E S \in SUBSET Seats \ {{}} : ReleaseSeats(S)
  \/ ReleaseRows \/ ReleaseMirror \/ ReleaseWrite \/ ReleaseRevoke \/ ReleaseTorn
  \/ StartPreFlop \/ \E B \in SUBSET Seats : ResolveWinners(B)
  \/ Eliminate \/ EliminateDone \/ FinishHand \/ FinishMirror \/ InitTable
  \/ LoseRedis \/ Restart

Spec == Init /\ [][Next]_vars

-----------------------------------------------------------------------------
(* Properties.                                                              *)

Shown(s) ==
  /\ snap.occ[s] = rows[s]
  /\ s \in bits.on
  /\ context[rows[s]] = s \/ ~ Without({"late"})

\* A seat somebody has in the database is his in the snapshot, its bit is set and
\* his context points to it, once his entry is through: whatever releases,
\* eliminations and other entries went on around it (claimSeat, releaseSeats:
\* bits and contexts in the lock; eliminatePlayer: a second arrival does not turn
\* off the bit of the next one).  A fault hides a seat at most until its owner
\* enters again, if Redis has a bitmap.  A context may be wrong after a mirror that
\* outlives its seat.
SeatedIsShown ==
  \A s \in Seats \ hurt :
    rows[s] # Nobody => \/ Shown(s)
                        \/ <<rows[s], s>> \in deferred
                        \/ \E p \in Phones : /\ phone[p].user = rows[s]
                                             /\ phone[p].pc \in Claiming

\* Nobody is taken off a seat that is his in the database, unless he has just got
\* it again and is about to be written, or failed to be (claimSeat: the row is read again in
\* the lock, because the entry may have read its own seat long ago).
OwnerKept ==
  [][\A s \in Seats :
       LET u == snap.occ[s]
       IN  snap.there /\ snap'.there /\ u # Nobody /\ rows[s] = u /\ snap'.occ[s] # u
           => s \in hurt \/ \E p \in Phones : At(p, "claim") /\ phone[p].user = u]_vars

\* Cards are dealt only to people who have the seat in the database, unless a
\* release broke off behind its transaction (releaseSeats, initTable), and except
\* to whoever is finished and got a row all the same (FinishedNeverDealt): the
\* second elimination of a hand may delete it again and leave his chips.
DealtHaveSeats ==
  [][Without({"torn"}) /\ snap.phase = "WAITING" /\ snap'.phase = "BETTING"
     => \A s \in Seats : snap.occ[s] # Nobody =>
          \/ rows[s] = snap.occ[s]
          \/ status[snap.occ[s]] = "eliminated" /\ ~ Without({"raced"})]_vars

\* Whoever is out stays out: no cards for an eliminated player (claimSeat: a row
\* that is gone was deleted with the status that the first check refuses).
FinishedNeverDealt ==
  [][snap.phase = "WAITING" /\ snap'.phase = "BETTING"
     => \A u \in Occupants : status[u] # "eliminated"]_vars

\* The last entry wins: a phone with an older token has no socket, except between
\* the commit that makes it old and the event that closes its socket (closeIfStale
\* after addToMap: one of the two looks sees the other).
OneDevice ==
  Without({"torn"}) =>
    \A p \in Phones :
      At(p, "live") /\ ~ Current(p) =>
        \/ \E q \in Phones : At(q, "revoke") /\ phone[q].user = phone[p].user
        \/ phone[p].user \in release.users

-----------------------------------------------------------------------------
(* The inductive invariant.                                                 *)

\* p is entering the seat for the user who has its row
For(p, s) == phone[p].user = rows[s] /\ phone[p].seat = s

Entering(s, pcs) == \E p \in Phones : For(p, s) /\ phone[p].pc \in pcs

\* who is in the lock; nobody else changes the snapshot
LockHeld ==
  /\ release.pc \in {"tx", "mirror", "write"} =>
       lock = "release" /\ release.users = {snap.occ[s] : s \in release.seats}
  /\ hand # "idle" => lock = "hand"
  /\ \A p \in Phones : At(p, "write") => lock = p /\ For(p, phone[p].seat)

EntryShape ==
  /\ \A p \in Phones : phone[p].pc \notin {"idle", "end"} => phone[p].user \in Users
  /\ \A p \in Phones : phone[p].pc \in {"seat", "table"} \union Claiming
                         => phone[p].seat \in Seats
  /\ \A s, t \in Seats : rows[s] = rows[t] /\ rows[s] # Nobody => s = t
  /\ release.pc = "idle" => release.users = {}
  /\ snap.bust # {} => snap.phase = "HAND_END"

\* An old socket lives while the event that closes it is under way.
ClosingUnderWay(u) ==
  \/ \E q \in Phones : At(q, "revoke") /\ phone[q].user = u
  \/ release.pc \in {"mirror", "write", "revoke"} /\ u \in release.users

OldSockets ==
  Without({"torn"}) =>
    \A p \in Phones : At(p, "live") /\ ~ Current(p) => ClosingUnderWay(phone[p].user)

\* Whoever has a row plays, but for the race.
RowsPlay ==
  Without({"raced"}) => \A s \in Seats : rows[s] # Nobody => status[rows[s]] = "playing"

\* An occupant has the row, or is just being released, or is finished: until the
\* next hand is prepared, or for good after the race.
OccupantsOwn ==
  Without({"torn"}) =>
    \A s \in Seats : snap.occ[s] # Nobody =>
      \/ rows[s] = snap.occ[s]
      \/ release.pc \in {"mirror", "write"} /\ s \in release.seats
      \/ status[snap.occ[s]] = "eliminated" /\ (s \in snap.bust \/ ~ Without({"raced"}))

\* What a release or an elimination is about to clear is nobody's, or belongs to
\* an entry that has not had the lock yet.
Clearing(s) ==
  \/ release.pc \in {"mirror", "write"} /\ (s \in release.seats \/ rows[s] \in release.users)
  \/ hand # "idle" /\ (s \in snap.bust \/ rows[s] \in Broke)

\* The four places of a seat, each on its way.
SeatKept(s) ==
  /\ Clearing(s) => Entering(s, {"claim"})
  /\ snap.occ[s] = rows[s] \/ Entering(s, {"claim", "write"})
  /\ \/ context[rows[s]] = s \/ ~ Without({"late"}) \/ <<rows[s], s>> \in deferred
     \/ Entering(s, {"claim", "write", "context"})
  /\ \/ s \in bits.on \/ <<rows[s], s>> \in deferred
     \/ Entering(s, {"claim", "write", "context", "bit"})
  /\ bits.there \/ Entering(s, {"claim"})

SeatsKept == \A s \in Seats \ hurt : rows[s] # Nobody => SeatKept(s)

\* Until a mirror is late, every mirror under way is of a seat still held.
MirrorsOfSeats ==
  Without({"late"}) =>
    /\ \A p \in Phones : phone[p].pc \in {"context", "bit"} => For(p, phone[p].seat)
    /\ \A d \in deferred : rows[d[2]] = d[1]

IInv == /\ TypeOK /\ LockHeld /\ EntryShape /\ OldSockets /\ RowsPlay /\ OccupantsOwn
        /\ SeatsKept /\ MirrorsOfSeats
=============================================================================
