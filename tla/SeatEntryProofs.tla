-------------------------- MODULE SeatEntryProofs --------------------------
(* That SeatEntry keeps its safety properties, for any people, seats and    *)
(* phones and any number of faults.  The invariant is IInv; its parts are   *)
(* kept one after the other, each with the help of the ones before: types   *)
(* and shapes, the lock, the rows, the sockets, the occupants, the mirrors  *)
(* and the four places of a seat.                                           *)
EXTENDS SeatEntry, TLAPS

PhoneShape ==
  [pc : {"idle", "seat", "table", "bump", "revoke", "token", "checked", "end"}
          \union Claiming \union Connected,
   user : User, seat : Seat, seated : BOOLEAN, others : BOOLEAN]
SnapShape == [there : BOOLEAN, phase : {"WAITING", "BETTING", "HAND_END"},
              occ : [Seats -> User], dealt : SUBSET Users, bust : SUBSET Seats]
BitsShape    == [there : BOOLEAN, on : SUBSET Seats]
ReleaseShape == [pc : {"idle", "tx", "mirror", "write", "revoke"},
                 seats : SUBSET Seats, users : SUBSET Users]
FaultShape   == [count : 0 .. MaxFaults, kinds : SUBSET FaultKinds]

Shapes ==
  /\ rows \in [Seats -> User]
  /\ status \in [Users -> {"waiting", "playing", "released", "eliminated"}]
  /\ newest \in [Users -> Phones \union {Nobody}]
  /\ snap \in SnapShape
  /\ bits \in BitsShape
  /\ context \in [Users -> Seat]
  /\ lock \in Phones \union {"free", "release", "hand"}
  /\ phone \in [Phones -> PhoneShape]
  /\ release \in ReleaseShape
  /\ hand \in {"idle", "eliminate", "finish", "write"}
  /\ deferred \subseteq Users \X Seats
  /\ hurt \subseteq Seats
  /\ faults \in FaultShape

LEMMA ShapesAreTypes == TypeOK <=> Shapes
  BY DEF TypeOK, Shapes, PhoneShape, SnapShape, BitsShape, ReleaseShape, FaultShape

\* The events of a release or an entry close sockets and touch nothing else.
LEMMA SocketsClosed ==
  ASSUME Shapes, NEW U
  PROVE  CloseSockets(U) \in [Phones -> PhoneShape]
  BY DEF Shapes, CloseSockets, Idle, PhoneShape, User, Seat

\* What is remembered of a late mirror adds to the kinds.
LEMMA LateAdds ==
  ASSUME Shapes, NEW U
  PROVE  LateMirrors(U) \in FaultShape /\ faults.kinds \subseteq LateMirrors(U).kinds
  BY DEF Shapes, LateMirrors, FaultShape, FaultKinds

LEMMA FaultAdds ==
  ASSUME Shapes, NEW k \in SUBSET FaultKinds, Fault(k)
  PROVE  faults' \in FaultShape /\ faults'.kinds = faults.kinds \union k
  BY BoundAssumption DEF Shapes, Fault, FaultShape

\* One phone goes on, as r; the others stay where they are.
Becomes(p, r) ==
  /\ phone' \in [Phones -> PhoneShape]
  /\ phone'[p] = r
  /\ \A q \in Phones \ {p} : phone'[q] = phone[q]

LEMMA OnePhone ==
  ASSUME Shapes, NEW p \in Phones, NEW r \in PhoneShape, phone' = [phone EXCEPT ![p] = r]
  PROVE  Becomes(p, r)
  BY DEF Shapes, Becomes

\* ... with its user and its seat, at pc.
Moved(p, pc) ==
  /\ Becomes(p, phone'[p])
  /\ phone'[p].pc = pc /\ phone'[p].user = phone[p].user /\ phone'[p].seat = phone[p].seat

\* ... or is done.
Ended(p) == Becomes(p, phone'[p]) /\ phone'[p] = Idle("end")

LEMMA IdleShaped == \A pc \in {"idle", "seat", "end"} : Idle(pc) \in PhoneShape
  BY DEF Idle, PhoneShape, User, Seat

LEMMA EndOf ==
  ASSUME Shapes, NEW p \in Phones, End(p)
  PROVE  Ended(p)
<1>1. Becomes(p, Idle("end")) BY IdleShaped, OnePhone DEF End
<1> QED BY <1>1 DEF Ended, Becomes

Pcs == {"idle", "seat", "table", "bump", "revoke", "token", "checked", "end"}
         \union Claiming \union Connected

\* The two locals of an entry do not matter to the invariant.
LEMMA MovedWith ==
  ASSUME Shapes, NEW p \in Phones, NEW pc \in Pcs, NEW a \in BOOLEAN, NEW b \in BOOLEAN,
         phone' = [phone EXCEPT ![p] = [phone[p] EXCEPT !.pc = pc, !.seated = a, !.others = b]]
  PROVE  Moved(p, pc)
<1> DEFINE r == [phone[p] EXCEPT !.pc = pc, !.seated = a, !.others = b]
<1>1. phone[p] \in PhoneShape BY DEF Shapes
<1>2. r \in PhoneShape BY <1>1 DEF PhoneShape, Pcs
<1>3. r.pc = pc /\ r.user = phone[p].user /\ r.seat = phone[p].seat BY <1>1 DEF PhoneShape
<1>4. phone' = [phone EXCEPT ![p] = r] OBVIOUS
<1> HIDE DEF r
<1>5. Becomes(p, r) BY <1>2, <1>4, OnePhone
<1> QED BY <1>3, <1>5 DEF Moved, Becomes

LEMMA GotoOf ==
  ASSUME Shapes, NEW p \in Phones, NEW pc \in Pcs, Goto(p, pc)
  PROVE  Moved(p, pc)
<1>1. phone[p] \in PhoneShape BY DEF Shapes
<1>2. [phone[p] EXCEPT !.pc = pc]
        = [phone[p] EXCEPT !.pc = pc, !.seated = phone[p].seated, !.others = phone[p].others]
  BY <1>1 DEF PhoneShape
<1>3. phone' = [phone EXCEPT ![p] = [phone[p] EXCEPT !.pc = pc]] BY DEF Goto
<1>4. phone[p].seated \in BOOLEAN /\ phone[p].others \in BOOLEAN BY <1>1 DEF PhoneShape
<1> QED BY <1>2, <1>3, <1>4, MovedWith

LEMMA MirrorOf ==
  ASSUME Shapes, NEW p \in Phones, Mirror(p)
  PROVE  Moved(p, "context")
<1>1. phone[p] \in PhoneShape BY DEF Shapes
<1>2. phone' = [phone EXCEPT ![p] = [phone[p] EXCEPT !.pc = "context", !.seated = phone[p].seated,
                                                     !.others = FALSE]]
  BY <1>1 DEF Mirror, PhoneShape
<1>3. phone[p].seated \in BOOLEAN BY <1>1 DEF PhoneShape
<1> QED BY <1>2, <1>3, MovedWith DEF Pcs, Claiming

LEMMA TokenOf ==
  ASSUME Shapes, NEW p \in Phones, Token(p)
  PROVE  Becomes(p, phone'[p]) /\ phone'[p].pc = "bump" /\ phone'[p].user = phone[p].user
<1> DEFINE r == [phone[p] EXCEPT !.pc = "bump", !.seat = Nobody]
<1>1. phone[p] \in PhoneShape BY DEF Shapes
<1>2. r \in PhoneShape BY <1>1 DEF PhoneShape, Seat
<1>3. r.pc = "bump" /\ r.user = phone[p].user BY <1>1 DEF PhoneShape
<1>4. phone' = [phone EXCEPT ![p] = r] BY <1>1 DEF Token
<1> HIDE DEF r
<1>5. Becomes(p, r) BY <1>2, <1>4, OnePhone
<1> QED BY <1>3, <1>5 DEF Becomes

LEMMA FindSeatOf ==
  ASSUME Shapes, NEW p \in Phones, FindSeat(p)
  PROVE  Moved(p, "table") \/ Ended(p)
<1>1. CASE End(p) BY <1>1, EndOf
<1>2. CASE ~ End(p)
  <2> DEFINE mine == SeatOf(phone[p].user, rows)
  <2>1. phone[p] \in PhoneShape BY DEF Shapes
  <2>2. phone' = [phone EXCEPT ![p].pc = "table", ![p].seated = mine # {}]
    BY <1>2 DEF FindSeat
  <2> DEFINE b == mine # {}
  <2>3. b \in BOOLEAN OBVIOUS
  <2> HIDE DEF b, mine
  <2>4. phone' = [phone EXCEPT ![p] = [phone[p] EXCEPT !.pc = "table", !.seated = b,
                                                       !.others = phone[p].others]]
    BY <2>1, <2>2 DEF PhoneShape, Shapes, b
  <2>5. phone[p].others \in BOOLEAN BY <2>1 DEF PhoneShape
  <2> QED BY <2>3, <2>4, <2>5, MovedWith DEF Pcs
<1> QED BY <1>1, <1>2

LEMMA FindTableOf ==
  ASSUME Shapes, NEW p \in Phones, FindTable(p)
  PROVE  Moved(p, "claim") \/ Moved(p, "create") \/ Ended(p)
<1>1. CASE End(p) BY <1>1, EndOf
<1>2. CASE ~ End(p)
  <2> DEFINE b == Taken # {}
             pc == IF phone[p].seated THEN "claim" ELSE "create"
  <2>1. phone[p] \in PhoneShape BY DEF Shapes
  <2>2. phone' = [phone EXCEPT ![p].others = b, ![p].seated = FALSE, ![p].pc = pc]
    BY <1>2 DEF FindTable
  <2>3. b \in BOOLEAN /\ pc \in {"claim", "create"} OBVIOUS
  <2> HIDE DEF b, pc
  <2>4. phone' = [phone EXCEPT ![p] = [phone[p] EXCEPT !.pc = pc, !.seated = FALSE, !.others = b]]
    BY <2>1, <2>2 DEF PhoneShape, Shapes
  <2>5. Moved(p, pc)
    BY <2>3, <2>4, MovedWith DEF Pcs, Claiming
  <2> QED BY <2>3, <2>5
<1> QED BY <1>1, <1>2

LEMMA EnterSeatOf ==
  ASSUME Shapes, NEW p \in Phones, NEW u \in Users, NEW s \in Seats, EnterSeat(p, u, s)
  PROVE  /\ Becomes(p, phone'[p])
         /\ phone'[p].pc = "seat" /\ phone'[p].user = u /\ phone'[p].seat = s
<1> DEFINE r == [Idle("seat") EXCEPT !.user = u, !.seat = s]
<1>1. r \in PhoneShape /\ r.pc = "seat" /\ r.user = u /\ r.seat = s
  BY DEF Idle, PhoneShape, User, Seat
<1>2. phone' = [phone EXCEPT ![p] = r] BY DEF EnterSeat
<1> HIDE DEF r
<1>3. Becomes(p, r) BY <1>1, <1>2, OnePhone
<1> QED BY <1>1, <1>3 DEF Becomes

-----------------------------------------------------------------------------
(* Types.                                                                   *)

\* What the readers of a phone leave alone.
Rest == <<rows, status, newest, snap, bits, context, lock, release, hand, deferred, hurt, faults>>

\* The steps of a phone that read, and go on.
Reads(p) ==
  \/ FindSeat(p) \/ FindTable(p) \/ AssertIdentityCurrent(p) \/ AddToMap(p)
  \/ CloseIfStale(p) \/ Disconnect(p)

LEMMA ReadsOf ==
  ASSUME Shapes, NEW p \in Phones, Reads(p)
  PROVE  /\ UNCHANGED Rest
         /\ phone[p].pc \in {"seat", "table", "token", "checked"} \union Connected
         /\ \/ Ended(p)
            \/ At(p, "seat") /\ Moved(p, "table")
            \/ At(p, "table") /\ (Moved(p, "claim") \/ Moved(p, "create"))
            \/ At(p, "token") /\ Current(p) /\ Moved(p, "checked")
            \/ At(p, "checked") /\ Moved(p, "added")
            \/ At(p, "added") /\ Current(p) /\ Moved(p, "live")
            \/ At(p, "live") /\ Moved(p, "token")
<1>1. CASE FindSeat(p)
  BY <1>1, FindSeatOf DEF FindSeat, At, Rest, db, redis
<1>2. CASE FindTable(p)
  BY <1>2, FindTableOf DEF FindTable, At, Rest, db, redis
<1>3. CASE AssertIdentityCurrent(p)
  BY <1>3, GotoOf, EndOf DEF AssertIdentityCurrent, At, Rest, db, redis, Pcs
<1>4. CASE AddToMap(p)
  BY <1>4, GotoOf, EndOf DEF AddToMap, At, Rest, db, redis, Pcs, Connected
<1>5. CASE CloseIfStale(p)
  BY <1>5, GotoOf, EndOf DEF CloseIfStale, At, Rest, db, redis, Pcs, Connected
<1>6. CASE Disconnect(p)
  BY <1>6, GotoOf DEF Disconnect, At, Rest, db, redis, Pcs, Connected
<1> QED BY <1>1, <1>2, <1>3, <1>4, <1>5, <1>6 DEF Reads

LEMMA TypedReads == ASSUME Shapes, NEW p \in Phones, Reads(p) PROVE Shapes'
<1>1. phone' \in [Phones -> PhoneShape]
  BY ReadsOf DEF Moved, Ended, Becomes
<1> QED BY <1>1, ReadsOf DEF Shapes, Rest

LEMMA TypedEnter ==
  ASSUME Shapes, NEW p \in Phones, NEW u \in Users, NEW s \in Seats, EnterSeat(p, u, s)
  PROVE  Shapes'
<1>1. phone' \in [Phones -> PhoneShape]
  BY EnterSeatOf DEF Becomes
<1> QED BY <1>1 DEF Shapes, EnterSeat, db, redis

LEMMA TypedRow == ASSUME Shapes, NEW p \in Phones, CreateRow(p) PROVE Shapes'
<1> USE DEF redis
<1>1. phone' \in [Phones -> PhoneShape]
  BY GotoOf, EndOf DEF CreateRow, Pcs, Claiming, Ended, Moved, Becomes
<1>2. phone[p].user \in User BY DEF Shapes, PhoneShape
<1>3. rows' \in [Seats -> User]
  BY <1>2 DEF Shapes, CreateRow
<1>4. status' \in [Users -> {"waiting", "playing", "released", "eliminated"}]
  BY DEF Shapes, CreateRow
<1>5. faults' \in FaultShape
  BY DEF Shapes, CreateRow, FaultShape, FaultKinds
<1> QED BY <1>1, <1>3, <1>4, <1>5 DEF Shapes, CreateRow

LEMMA TypedOwn == ASSUME Shapes, EntryShape, NEW p \in Phones, OwnSeat(p) PROVE Shapes'
<1> USE DEF db, redis
<1>1. phone' \in [Phones -> PhoneShape]
  BY GotoOf, EndOf, MirrorOf DEF OwnSeat, Pcs, Claiming, Ended, Moved, Becomes
<1>2. phone[p].seat \in Seats BY DEF EntryShape, OwnSeat, At, Claiming
<1>3. hurt' \subseteq Seats
  BY <1>2 DEF OwnSeat, Shapes
<1>4. lock' \in Phones \union {"free", "release", "hand"}
  BY DEF OwnSeat, Shapes
<1> QED BY <1>1, <1>3, <1>4 DEF Shapes, OwnSeat

LEMMA TypedWrite == ASSUME Shapes, EntryShape, NEW p \in Phones, WriteSeat(p) PROVE Shapes'
<1> USE DEF db, redis
<1>1. phone' \in [Phones -> PhoneShape]
  BY MirrorOf DEF WriteSeat, Moved, Becomes
<1>2. phone[p].seat \in Seats /\ phone[p].user \in User
  BY DEF EntryShape, WriteSeat, At, Claiming, Shapes, PhoneShape
<1>3. snap' \in SnapShape
  BY <1>2 DEF WriteSeat, Shapes, SnapShape
<1> QED BY <1>1, <1>3 DEF Shapes, WriteSeat

LEMMA TypedFails == ASSUME Shapes, EntryShape, NEW p \in Phones, EntryFails(p) PROVE Shapes'
<1> USE DEF db, redis
<1>1. phone' \in [Phones -> PhoneShape]
  BY EndOf DEF EntryFails, Ended, Becomes
<1>2. phone[p].seat \in Seats BY DEF EntryShape, EntryFails, At, Claiming
<1>3. faults' \in FaultShape BY FaultAdds DEF EntryFails
<1>4. hurt' \subseteq Seats BY <1>2 DEF EntryFails, Shapes
<1>5. lock' \in Phones \union {"free", "release", "hand"} BY DEF EntryFails, Shapes
<1> QED BY <1>1, <1>3, <1>4, <1>5 DEF Shapes, EntryFails

LEMMA TypedMirror ==
  ASSUME Shapes, EntryShape, NEW p \in Phones, MirrorContext(p) \/ MirrorBit(p) \/ MirrorFails(p)
  PROVE  Shapes'
<1> USE DEF db, redis
<1>1. phone' \in [Phones -> PhoneShape]
  BY GotoOf, TokenOf DEF MirrorContext, MirrorBit, MirrorFails, Moved, Becomes, Pcs, Claiming
<1>2. phone[p].seat \in Seats /\ phone[p].user \in Users
  BY DEF EntryShape, MirrorContext, MirrorBit, MirrorFails, At, Claiming
<1>3. CASE MirrorContext(p)
  <2>1. context' \in [Users -> Seat] BY <1>2, <1>3 DEF MirrorContext, Shapes, Seat
  <2> QED BY <1>1, <1>3, <2>1 DEF Shapes, MirrorContext
<1>4. CASE MirrorBit(p)
  <2>1. bits' \in BitsShape BY <1>2, <1>4 DEF MirrorBit, Bits, Shapes, BitsShape
  <2> QED BY <1>1, <1>4, <2>1 DEF Shapes, MirrorBit
<1>5. CASE MirrorFails(p)
  <2>1. faults' \in FaultShape BY <1>5, FaultAdds DEF MirrorFails
  <2>2. hurt' \subseteq Seats /\ deferred' \subseteq Users \X Seats
    BY <1>2, <1>5 DEF MirrorFails, Shapes
  <2> QED BY <1>1, <1>5, <2>1, <2>2 DEF Shapes, MirrorFails
<1> QED BY <1>3, <1>4, <1>5

LEMMA TypedLater ==
  ASSUME Shapes, NEW u \in Users, NEW s \in Seats, WhenUp(u, s) PROVE Shapes'
<1> USE DEF db
<1>1. context' \in [Users -> Seat] BY DEF WhenUp, Shapes, Seat
<1>2. bits' \in BitsShape BY DEF WhenUp, Bits, Shapes, BitsShape
<1>3. deferred' \subseteq Users \X Seats BY DEF WhenUp, Shapes
<1> QED BY <1>1, <1>2, <1>3 DEF Shapes, WhenUp

LEMMA TypedToken ==
  ASSUME Shapes, NEW p \in Phones, BumpVersion(p) \/ RevokeTokens(p) PROVE Shapes'
<1> USE DEF db, redis
<1>1. CASE BumpVersion(p)
  <2>1. phone' \in [Phones -> PhoneShape]
    BY <1>1, GotoOf DEF BumpVersion, Moved, Becomes, Pcs
  <2>2. newest' \in [Users -> Phones \union {Nobody}]
    BY <1>1 DEF BumpVersion, Shapes
  <2> QED BY <1>1, <2>1, <2>2 DEF Shapes, BumpVersion
<1>2. CASE RevokeTokens(p)
  <2> DEFINE closed == CloseSockets({phone[p].user})
  <2>1. closed \in [Phones -> PhoneShape] BY SocketsClosed
  <2>2. phone' = [closed EXCEPT ![p].pc = "token"] BY <1>2 DEF RevokeTokens
  <2> HIDE DEF closed
  <2>3. phone' \in [Phones -> PhoneShape]
    <3>1. [closed[p] EXCEPT !.pc = "token"] \in PhoneShape BY <2>1 DEF PhoneShape
    <3>2. phone' = [closed EXCEPT ![p] = [closed[p] EXCEPT !.pc = "token"]] BY <2>2
    <3> QED BY <2>1, <3>1, <3>2
  <2> QED BY <1>2, <2>3 DEF Shapes, RevokeTokens
<1> QED BY <1>1, <1>2

\* The steps of a release, and of a hand.
ReleaseStep ==
  \/ \E S \in SUBSET Seats \ {{}} : ReleaseSeats(S)
  \/ ReleaseRows \/ ReleaseMirror \/ ReleaseWrite \/ ReleaseRevoke \/ ReleaseTorn

HandStep ==
  \/ StartPreFlop \/ \E B \in SUBSET Seats : ResolveWinners(B)
  \/ Eliminate \/ EliminateDone \/ FinishHand \/ FinishMirror \/ InitTable

LEMMA TypedRelease == ASSUME Shapes, ReleaseStep PROVE Shapes'
<1> USE DEF db, redis
<1>1. CASE \E S \in SUBSET Seats \ {{}} : ReleaseSeats(S)
  <2>1. PICK S \in SUBSET Seats \ {{}} : ReleaseSeats(S) BY <1>1
  <2>2. \A s \in S : snap.occ[s] \in Users BY <2>1 DEF ReleaseSeats, Shapes, SnapShape, User
  <2>3. release' \in ReleaseShape
    <3>1. {snap.occ[s] : s \in S} \in SUBSET Users BY <2>2
    <3> QED BY <2>1, <3>1 DEF ReleaseSeats, ReleaseShape
  <2> QED BY <2>1, <2>3 DEF Shapes, ReleaseSeats
<1>2. CASE ReleaseRows
  <2>1. rows' \in [Seats -> User] BY <1>2 DEF ReleaseRows, Shapes, User
  <2>2. status' \in [Users -> {"waiting", "playing", "released", "eliminated"}]
    BY <1>2 DEF ReleaseRows, Shapes
  <2>3. newest' \in [Users -> Phones \union {Nobody}] BY <1>2 DEF ReleaseRows, Shapes
  <2>4. release' \in ReleaseShape BY <1>2 DEF ReleaseRows, Shapes, ReleaseShape, NoRelease
  <2>5. faults' \in FaultShape BY <1>2, LateAdds DEF ReleaseRows, Shapes
  <2>6. lock' \in Phones \union {"free", "release", "hand"} /\ hurt' \subseteq Seats
    BY <1>2 DEF ReleaseRows, Shapes
  <2> QED BY <1>2, <2>1, <2>2, <2>3, <2>4, <2>5, <2>6 DEF Shapes, ReleaseRows
<1>3. CASE ReleaseMirror
  <2>1. bits' \in BitsShape BY <1>3 DEF ReleaseMirror, Bits, Shapes, BitsShape
  <2>2. context' \in [Users -> Seat] BY <1>3 DEF ReleaseMirror, Shapes, Seat
  <2>3. release' \in ReleaseShape BY <1>3 DEF ReleaseMirror, Shapes, ReleaseShape
  <2> QED BY <1>3, <2>1, <2>2, <2>3 DEF Shapes, ReleaseMirror
<1>4. CASE ReleaseWrite
  <2>1. snap' \in SnapShape BY <1>4 DEF ReleaseWrite, Shapes, SnapShape, User
  <2>2. release' \in ReleaseShape BY <1>4 DEF ReleaseWrite, Shapes, ReleaseShape
  <2> QED BY <1>4, <2>1, <2>2 DEF Shapes, ReleaseWrite
<1>5. CASE ReleaseRevoke
  <2>1. release' \in ReleaseShape BY <1>5 DEF ReleaseRevoke, ReleaseShape, NoRelease
  <2>2. phone' \in [Phones -> PhoneShape] BY <1>5, SocketsClosed DEF ReleaseRevoke
  <2> QED BY <1>5, <2>1, <2>2 DEF Shapes, ReleaseRevoke
<1>6. CASE ReleaseTorn
  <2>1. release' \in ReleaseShape BY <1>6 DEF ReleaseTorn, ReleaseShape, NoRelease
  <2>2. faults' \in FaultShape BY <1>6, FaultAdds DEF ReleaseTorn, FaultKinds
  <2> QED BY <1>6, <2>1, <2>2 DEF Shapes, ReleaseTorn
<1> QED BY <1>1, <1>2, <1>3, <1>4, <1>5, <1>6 DEF ReleaseStep

LEMMA TypedMirrored ==
  ASSUME Shapes, EliminateMirror
  PROVE  bits' \in BitsShape /\ context' \in [Users -> Seat]
  BY DEF EliminateMirror, Bits, Shapes, BitsShape, Seat

LEMMA TypedHand == ASSUME Shapes, HandStep PROVE Shapes'
<1> USE DEF db, redis, calls
<1>1. CASE StartPreFlop
  <2>1. Occupants \subseteq Users BY DEF Occupants, Shapes, SnapShape, User
  <2>2. snap' \in SnapShape BY <1>1, <2>1 DEF StartPreFlop, Shapes, SnapShape
  <2> QED BY <1>1, <2>2 DEF Shapes, StartPreFlop
<1>2. CASE \E B \in SUBSET Seats : ResolveWinners(B)
  <2>1. snap' \in SnapShape BY <1>2 DEF ResolveWinners, Shapes, SnapShape
  <2> QED BY <1>2, <2>1 DEF Shapes, ResolveWinners
<1>3. CASE Eliminate \/ FinishHand
  <2>1. PICK next \in {"eliminate", "finish"} : EliminatePlayer(next)
    BY <1>3 DEF Eliminate, FinishHand
  <2>2. rows' \in [Seats -> User] BY <2>1 DEF EliminatePlayer, Shapes, User
  <2>3. status' \in [Users -> {"waiting", "playing", "released", "eliminated"}]
    BY <2>1 DEF EliminatePlayer, Shapes
  <2>4. faults' \in FaultShape BY <2>1, LateAdds DEF EliminatePlayer
  <2>5. hurt' \subseteq Seats BY <2>1 DEF EliminatePlayer, Shapes
  <2> QED BY <2>1, <2>2, <2>3, <2>4, <2>5 DEF Shapes, EliminatePlayer
<1>4. CASE EliminateDone
  BY <1>4, TypedMirrored DEF Shapes, EliminateDone
<1>5. CASE FinishMirror
  BY <1>5, TypedMirrored DEF Shapes, FinishMirror
<1>6. CASE InitTable
  <2>1. snap' \in SnapShape BY <1>6 DEF InitTable, Shapes, SnapShape, User
  <2> QED BY <1>6, <2>1 DEF Shapes, InitTable
<1> QED BY <1>1, <1>2, <1>3, <1>4, <1>5, <1>6 DEF HandStep

LEMMA EmptyShaped == NoSnapshot \in SnapShape /\ EmptyTable \in SnapShape /\ NoBitmap \in BitsShape
<1>1. NoSnapshot \in SnapShape BY DEF NoSnapshot, SnapShape, User
<1> QED BY <1>1 DEF EmptyTable, SnapShape, NoBitmap, BitsShape

LEMMA TypedLoss == ASSUME Shapes, LoseRedis PROVE Shapes'
<1>1. context' \in [Users -> Seat] BY DEF LoseRedis, Seat
<1>2. hurt' \subseteq Seats BY DEF LoseRedis, Taken
<1>3. faults' \in FaultShape BY FaultAdds DEF LoseRedis
<1> QED BY <1>1, <1>2, <1>3, EmptyShaped DEF Shapes, LoseRedis, db, calls

LEMMA BitmapShaped ==
  ASSUME NEW X \in SUBSET Seats, NEW b, b = [there |-> TRUE, on |-> X]
  PROVE  b \in BitsShape /\ b.there
  BY DEF BitsShape

\* A boot without a snapshot seats the rows of those who play.
Keep == [s \in Seats |-> IF rows[s] # Nobody /\ status[rows[s]] = "playing"
                           THEN rows[s] ELSE Nobody]

LEMMA BootOf ==
  ASSUME Shapes, Boot
  PROVE  /\ rows' \in [Seats -> User] /\ snap' \in SnapShape /\ bits' \in BitsShape
         /\ context' \in [Users -> Seat] /\ bits'.there
         /\ snap.there => UNCHANGED <<rows, snap, context>>
         /\ ~ snap.there => /\ rows' = Keep
                            /\ snap' = [EmptyTable EXCEPT !.occ = Keep]
<1>1. Keep \in [Seats -> User] BY DEF Shapes, User, Keep
<1>2. CASE snap.there
  <2>1. \/ bits' = bits /\ bits.there
        \/ bits' = [there |-> TRUE, on |-> {}]
        \/ bits' = [there |-> TRUE, on |-> {s \in Seats : snap.occ[s] # Nobody}]
    BY <1>2 DEF Boot
  <2>2. bits' \in BitsShape /\ bits'.there
    <3> {} \in SUBSET Seats /\ {s \in Seats : snap.occ[s] # Nobody} \in SUBSET Seats
      OBVIOUS
    <3>1. CASE bits' = bits /\ bits.there BY <3>1 DEF Shapes
    <3>2. CASE bits' = [there |-> TRUE, on |-> {}] BY <3>2, BitmapShaped
    <3>3. CASE bits' = [there |-> TRUE, on |-> {s \in Seats : snap.occ[s] # Nobody}]
      BY <3>3, BitmapShaped
    <3> QED BY <2>1, <3>1, <3>2, <3>3
  <2> QED BY <1>2, <2>2 DEF Boot, Shapes
<1>3. CASE ~ snap.there
  <2>1. rows' = Keep /\ snap' = [EmptyTable EXCEPT !.occ = Keep] BY <1>3 DEF Boot, Keep
  <2>2. snap' \in SnapShape BY <1>1, <2>1, EmptyShaped DEF SnapShape
  <2>3. bits' \in BitsShape /\ bits'.there
    <3>1. \/ bits' = bits /\ bits.there
          \/ bits' = [there |-> TRUE, on |-> {s \in Seats : Keep[s] # Nobody}]
      BY <1>3 DEF Boot, Keep
    <3>2. CASE bits' = bits /\ bits.there BY <3>2 DEF Shapes
    <3>3. CASE bits' = [there |-> TRUE, on |-> {s \in Seats : Keep[s] # Nobody}]
      <4>1. {s \in Seats : Keep[s] # Nobody} \in SUBSET Seats OBVIOUS
      <4> QED BY <3>3, <4>1, BitmapShaped
    <3> QED BY <3>1, <3>2, <3>3
  <2>4. context' \in [Users -> Seat]
    <3>1. \A u \in Users : SeatOf(u, Keep) # {} => (CHOOSE s \in Seats : Keep[s] = u) \in Seats
      BY DEF SeatOf
    <3>2. context' = [u \in Users |-> IF SeatOf(u, Keep) # {}
                                       THEN CHOOSE s \in Seats : Keep[s] = u ELSE context[u]]
      BY <1>3 DEF Boot, Keep
    <3> QED BY <3>1, <3>2 DEF Shapes, Seat
  <2> QED BY <1>1, <1>3, <2>1, <2>2, <2>3, <2>4
<1> QED BY <1>2, <1>3

LEMMA TypedRestart == ASSUME Shapes, Restart PROVE Shapes'
<1>1. phone' \in [Phones -> PhoneShape]
  <2>1. ASSUME NEW p \in Phones PROVE [phone[p] EXCEPT !.pc = "token"] \in PhoneShape
    BY DEF Shapes, PhoneShape
  <2> QED BY <2>1, IdleShaped DEF Restart, Shapes
<1>2. release' \in ReleaseShape BY DEF Restart, NoRelease, ReleaseShape
<1>3. hurt' \subseteq Seats BY DEF Restart, Taken
<1>4. faults' \in FaultShape BY FaultAdds DEF Restart, FaultKinds
<1> QED BY <1>1, <1>2, <1>3, <1>4, BootOf DEF Shapes, Restart

-----------------------------------------------------------------------------
(* The phones, and the shape of the rest.                                   *)

\* The steps in which a phone does not take part, or has its socket closed.
LEMMA ClosedOf ==
  ASSUME Shapes, NEW U, NEW q \in Phones
  PROVE  /\ CloseSockets(U)[q] = phone[q] \/ CloseSockets(U)[q] = Idle("end")
         /\ phone[q].pc \notin Connected => CloseSockets(U)[q] = phone[q]
  BY DEF CloseSockets, Revoked

LEMMA RevokeOf ==
  ASSUME Shapes, NEW p \in Phones, RevokeTokens(p)
  PROVE  /\ phone'[p].pc = "token" /\ phone'[p].user = phone[p].user
         /\ \A q \in Phones \ {p} : phone'[q] = CloseSockets({phone[p].user})[q]
<1> DEFINE closed == CloseSockets({phone[p].user})
<1>1. closed \in [Phones -> PhoneShape] BY SocketsClosed
<1>2. closed[p] = phone[p] BY ClosedOf DEF RevokeTokens, At, Connected
<1>3. phone' = [closed EXCEPT ![p].pc = "token"] BY DEF RevokeTokens
<1> HIDE DEF closed
<1>4. phone'[p] = [closed[p] EXCEPT !.pc = "token"] BY <1>1, <1>3
<1>5. \A q \in Phones \ {p} : phone'[q] = closed[q] BY <1>1, <1>3
<1>6. closed[p] \in PhoneShape BY <1>1
<1> QED BY <1>2, <1>4, <1>5, <1>6 DEF closed, PhoneShape

\* The records of phone q before and after a step of the server that is not its own.
LEMMA RestartOf ==
  ASSUME Shapes, Restart, NEW q \in Phones
  PROVE  \/ /\ phone[q].pc \in {"token", "checked"} \union Connected
            /\ phone'[q].pc = "token" /\ phone'[q].user = phone[q].user
         \/ phone[q].pc = "idle" /\ phone'[q] = phone[q]
         \/ phone'[q] = Idle("end")
<1>1. phone[q] \in PhoneShape BY DEF Shapes
<1>2. phone'[q] = IF phone[q].pc \in {"token", "checked"} \union Connected
                    THEN [phone[q] EXCEPT !.pc = "token"]
                  ELSE IF phone[q].pc = "idle" THEN phone[q] ELSE Idle("end")
  BY DEF Restart, At
<1> QED BY <1>1, <1>2 DEF PhoneShape

\* What becomes of a phone, whoever makes the step.
GoesOn(from, to) ==
  \/ from = "seat"   /\ to = "table"
  \/ from = "table"  /\ to \in {"create", "claim"}
  \/ from = "create" /\ to = "claim"
  \/ from = "claim"  /\ to \in {"write", "context"}
  \/ from = "write"  /\ to = "context"
  \/ from = "context" /\ to = "bit"

Connects(from, to) ==
  \/ from \in {"context", "bit"} /\ to = "bump"
  \/ from = "bump"    /\ to = "revoke"
  \/ from = "revoke"  /\ to = "token"
  \/ from = "token"   /\ to = "checked"
  \/ from = "checked" /\ to = "added"
  \/ from = "added"   /\ to = "live"
  \/ from \in {"token", "checked", "added", "live"} /\ to = "token"

Follows(q) ==
  \/ phone'[q] = phone[q]
  \/ phone'[q] = Idle("end")
  \/ /\ phone[q].pc = "idle" /\ phone'[q].pc = "seat"
     /\ phone'[q].user \in Users /\ phone'[q].seat \in Seats
  \/ /\ GoesOn(phone[q].pc, phone'[q].pc)
     /\ phone'[q].user = phone[q].user /\ phone'[q].seat = phone[q].seat
  \/ Connects(phone[q].pc, phone'[q].pc) /\ phone'[q].user = phone[q].user

LEMMA PhoneFollows ==
  ASSUME Shapes, NEW p \in Phones, Phone(p), NEW q \in Phones
  PROVE  Follows(q)
<1> USE DEF Moved, Ended, Becomes
<1>1. CASE Reads(p)
  <2>1. CASE q = p BY <1>1, <2>1, ReadsOf DEF At, Follows, GoesOn, Connects
  <2>2. CASE q # p BY <1>1, <2>2, ReadsOf DEF Follows
  <2> QED BY <2>1, <2>2
<1>2. CASE CreateRow(p)
  BY <1>2, GotoOf, EndOf DEF CreateRow, At, Follows, GoesOn, Pcs, Claiming
<1>3. CASE OwnSeat(p)
  BY <1>3, GotoOf, EndOf, MirrorOf DEF OwnSeat, At, Follows, GoesOn, Pcs, Claiming
<1>4. CASE WriteSeat(p)
  BY <1>4, MirrorOf DEF WriteSeat, At, Follows, GoesOn
<1>5. CASE EntryFails(p)
  BY <1>5, EndOf DEF EntryFails, Follows
<1>6. CASE MirrorContext(p)
  BY <1>6, GotoOf DEF MirrorContext, At, Follows, GoesOn, Pcs, Claiming
<1>7. CASE MirrorBit(p)
  BY <1>7, TokenOf DEF MirrorBit, At, Follows, Connects
<1>8. CASE MirrorFails(p)
  BY <1>8, TokenOf DEF MirrorFails, Follows, Connects
<1>9. CASE BumpVersion(p)
  BY <1>9, GotoOf DEF BumpVersion, At, Follows, Connects, Pcs
<1>10. CASE RevokeTokens(p)
  <2>1. CASE q = p BY <1>10, <2>1, RevokeOf DEF RevokeTokens, At, Follows, Connects
  <2>2. CASE q # p
    <3>1. phone'[q] = CloseSockets({phone[p].user})[q] BY <1>10, <2>2, RevokeOf
    <3>2. phone'[q] = phone[q] \/ phone'[q] = Idle("end") BY <3>1, ClosedOf
    <3> QED BY <3>2 DEF Follows
  <2> QED BY <2>1, <2>2
<1> QED BY <1>1, <1>2, <1>3, <1>4, <1>5, <1>6, <1>7, <1>8, <1>9, <1>10 DEF Phone, Reads

LEMMA PhonesFollow ==
  ASSUME Shapes, [Next]_vars, NEW q \in Phones
  PROVE  Follows(q)
<1> USE DEF Follows
<1>1. ASSUME NEW p \in Phones, Phone(p) PROVE Follows(q)
  BY <1>1, PhoneFollows
<1>2. ASSUME NEW p \in Phones, NEW u \in Users, NEW s \in Seats, EnterSeat(p, u, s)
      PROVE  Follows(q)
  <2>1. phone[p].pc = "idle" BY <1>2 DEF EnterSeat, At
  <2>2. Becomes(p, phone'[p]) /\ phone'[p].pc = "seat" /\ phone'[p].user = u /\ phone'[p].seat = s
    BY <1>2, EnterSeatOf
  <2>3. CASE q = p BY <2>1, <2>2, <2>3
  <2>4. CASE q # p BY <2>2, <2>4 DEF Becomes
  <2> QED BY <2>3, <2>4
<1>3. CASE \E u \in Users, s \in Seats : WhenUp(u, s)
  BY <1>3 DEF WhenUp
<1>4. CASE ReleaseStep
  <2>1. CASE ReleaseRevoke
    BY <2>1, ClosedOf DEF ReleaseRevoke
  <2>2. CASE \E S \in SUBSET Seats \ {{}} : ReleaseSeats(S)
    BY <2>2 DEF ReleaseSeats
  <2>3. CASE ReleaseRows \/ ReleaseMirror \/ ReleaseWrite \/ ReleaseTorn
    BY <2>3 DEF ReleaseRows, ReleaseMirror, ReleaseWrite, ReleaseTorn
  <2> QED BY <1>4, <2>1, <2>2, <2>3 DEF ReleaseStep
<1>5. CASE HandStep
  <2>1. CASE \E B \in SUBSET Seats : ResolveWinners(B)
    BY <2>1 DEF ResolveWinners, calls
  <2>2. CASE StartPreFlop \/ Eliminate \/ FinishHand
    BY <2>2 DEF StartPreFlop, Eliminate, FinishHand, EliminatePlayer, calls
  <2>3. CASE EliminateDone \/ FinishMirror \/ InitTable
    BY <2>3 DEF EliminateDone, FinishMirror, InitTable
  <2> QED BY <1>5, <2>1, <2>2, <2>3 DEF HandStep
<1>6. CASE LoseRedis
  BY <1>6 DEF LoseRedis, calls
<1>7. CASE Restart
  BY <1>7, RestartOf DEF Connects, Connected
<1>8. CASE UNCHANGED vars
  BY <1>8 DEF vars
<1> QED BY <1>1, <1>2, <1>3, <1>4, <1>5, <1>6, <1>7, <1>8 DEF Next, ReleaseStep, HandStep

LEMMA ShapeKept ==
  ASSUME Shapes, EntryShape, [Next]_vars
  PROVE  EntryShape'
<1> USE DEF db, redis, calls, Rest
<1>1. \A p \in Phones : phone'[p].pc \notin {"idle", "end"} => phone'[p].user \in Users
  <2> TAKE p \in Phones
  <2> QED BY PhonesFollow DEF Follows, GoesOn, Connects, Idle, EntryShape
<1>2. \A p \in Phones : phone'[p].pc \in {"seat", "table"} \union Claiming
                          => phone'[p].seat \in Seats
  <2> TAKE p \in Phones
  <2> QED BY PhonesFollow DEF Follows, GoesOn, Connects, Idle, EntryShape, Claiming
<1> DEFINE Distinct == \A s, t \in Seats : rows[s] = rows[t] /\ rows[s] # Nobody => s = t
           Released == release.pc = "idle" => release.users = {}
           Busted   == snap.bust # {} => snap.phase = "HAND_END"
<1>3. Distinct /\ Released /\ Busted BY DEF EntryShape
<1>4. Distinct' /\ Released' /\ Busted'
  <2>1. ASSUME NEW p \in Phones, Reads(p) \/ \E u \in Users, s \in Seats : EnterSeat(p, u, s)
        PROVE  Distinct' /\ Released' /\ Busted'
    <3>1. UNCHANGED <<rows, release, snap>> BY <2>1, ReadsOf DEF EnterSeat
    <3> QED BY <1>3, <3>1
  <2>2. ASSUME NEW p \in Phones, CreateRow(p) PROVE Distinct' /\ Released' /\ Busted'
    <3>1. UNCHANGED <<release, snap>> BY <2>2 DEF CreateRow
    <3>2. phone[p].user \in Users /\ phone[p].seat \in Seats
      BY <2>2 DEF CreateRow, EntryShape, At, Claiming
    <3>3. Distinct' BY <1>3, <2>2, <3>2, NobodyAssumption DEF CreateRow, SeatOf, Shapes
    <3> QED BY <1>3, <3>1, <3>3
  <2>3. ASSUME NEW p \in Phones, WriteSeat(p) PROVE Distinct' /\ Released' /\ Busted'
    <3>1. UNCHANGED <<rows, release>> BY <2>3 DEF WriteSeat
    <3>2. Busted' BY <1>3, <2>3 DEF WriteSeat, Shapes, SnapShape
    <3> QED BY <1>3, <3>1, <3>2
  <2>4. ASSUME NEW p \in Phones,
               \/ OwnSeat(p) \/ EntryFails(p) \/ MirrorContext(p) \/ MirrorBit(p)
               \/ MirrorFails(p) \/ BumpVersion(p) \/ RevokeTokens(p)
        PROVE  Distinct' /\ Released' /\ Busted'
    <3>1. UNCHANGED <<rows, release, snap>>
      BY <2>4 DEF OwnSeat, EntryFails, MirrorContext, MirrorBit, MirrorFails, BumpVersion,
                  RevokeTokens
    <3> QED BY <1>3, <3>1
  <2>5. CASE \/ \E u \in Users, s \in Seats : WhenUp(u, s)
             \/ EliminateDone \/ FinishMirror \/ UNCHANGED vars
    <3>1. UNCHANGED <<rows, release, snap>>
      BY <2>5 DEF WhenUp, EliminateDone, FinishMirror, vars, EliminateMirror
    <3> QED BY <1>3, <3>1
  <2>6. CASE \E S \in SUBSET Seats \ {{}} : ReleaseSeats(S)
    BY <1>3, <2>6 DEF ReleaseSeats
  <2>7. CASE ReleaseRows
    BY <1>3, <2>7 DEF ReleaseRows, Shapes, ReleaseShape, NoRelease
  <2>8. CASE ReleaseMirror
    BY <1>3, <2>8 DEF ReleaseMirror, Shapes, ReleaseShape
  <2>9. CASE ReleaseWrite
    BY <1>3, <2>9 DEF ReleaseWrite, Shapes, ReleaseShape, SnapShape
  <2>10. CASE ReleaseRevoke \/ ReleaseTorn
    BY <1>3, <2>10 DEF ReleaseRevoke, ReleaseTorn, NoRelease
  <2>11. CASE StartPreFlop
    BY <1>3, <2>11 DEF StartPreFlop, Shapes, SnapShape
  <2>12. CASE \E B \in SUBSET Seats : ResolveWinners(B)
    BY <1>3, <2>12 DEF ResolveWinners, Shapes, SnapShape
  <2>13. CASE Eliminate \/ FinishHand
    BY <1>3, <2>13 DEF Eliminate, FinishHand, EliminatePlayer, Shapes
  <2>14. CASE InitTable
    BY <1>3, <2>14 DEF InitTable, Shapes, SnapShape
  <2>15. CASE LoseRedis
    BY <1>3, <2>15 DEF LoseRedis, NoSnapshot
  <2>16. CASE Restart
    <3>1. Released' BY <2>16 DEF Restart, NoRelease
    <3>2. Boot BY <2>16 DEF Restart
    <3>3. Distinct' BY <1>3, <3>2, BootOf DEF Keep
    <3>4. Busted' BY <1>3, <3>2, BootOf, EmptyShaped DEF EmptyTable, NoSnapshot, SnapShape
    <3> QED BY <3>1, <3>3, <3>4
  <2> QED BY <2>1, <2>2, <2>3, <2>4, <2>5, <2>6, <2>7, <2>8, <2>9, <2>10, <2>11, <2>12, <2>13,
             <2>14, <2>15, <2>16 DEF Next, Phone, Reads
<1> QED BY <1>1, <1>2, <1>4 DEF EntryShape

\* Types and shapes are kept together.
LEMMA Typed == Shapes /\ EntryShape /\ [Next]_vars => Shapes' /\ EntryShape'
<1> SUFFICES ASSUME Shapes, EntryShape, [Next]_vars PROVE Shapes' /\ EntryShape'
  OBVIOUS
<1>1. CASE UNCHANGED vars BY <1>1, ShapeKept DEF Shapes, vars
<1>2. ASSUME NEW p \in Phones, Phone(p) PROVE Shapes'
  BY <1>2, TypedReads, TypedRow, TypedOwn, TypedWrite, TypedFails, TypedMirror, TypedToken
     DEF Phone, Reads
<1>3. CASE Next
  BY <1>2, <1>3, ShapeKept, TypedEnter, TypedLater, TypedRelease, TypedHand, TypedLoss, TypedRestart
     DEF Next, ReleaseStep, HandStep
<1> QED BY <1>1, <1>3

LEMMA Started == Init => Shapes /\ EntryShape
<1> SUFFICES ASSUME Init PROVE Shapes /\ EntryShape
  OBVIOUS
<1>1. rows \in [Seats -> User] BY DEF Init, User
<1>2. snap \in SnapShape BY <1>1, EmptyShaped DEF Init, SnapShape, User
<1>3. context \in [Users -> Seat]
  <2>1. \A u \in Users : SeatOf(u, rows) # {} => (CHOOSE s \in Seats : rows[s] = u) \in Seats
    BY DEF SeatOf
  <2> QED BY <2>1 DEF Init, Seat
<1>4. phone \in [Phones -> PhoneShape] /\ \A p \in Phones : phone[p].pc = "idle"
  BY IdleShaped DEF Init, Idle
<1>5. faults \in FaultShape BY BoundAssumption DEF Init, FaultShape
<1>6. bits \in BitsShape BY BitmapShaped DEF Init, Taken
<1>7. Shapes BY <1>1, <1>2, <1>3, <1>4, <1>5, <1>6 DEF Init, Shapes, NoRelease, ReleaseShape
<1>8. EntryShape
  BY <1>4 DEF Init, EntryShape, Claiming, NoRelease, EmptyTable, NoSnapshot
<1> QED BY <1>7, <1>8

-----------------------------------------------------------------------------
(* The sockets.                                                             *)

\* What is remembered is not forgotten.
LEMMA KindsGrow ==
  ASSUME Shapes, [Next]_vars
  PROVE  faults.kinds \subseteq faults'.kinds
<1> USE DEF calls
<1>1. ASSUME NEW p \in Phones, Phone(p) PROVE faults.kinds \subseteq faults'.kinds
  <2>1. CASE Reads(p) BY <2>1, ReadsOf DEF Rest
  <2>2. CASE CreateRow(p) BY <2>2 DEF CreateRow, Shapes, FaultShape
  <2>3. CASE EntryFails(p) BY <2>3, FaultAdds DEF EntryFails
  <2>4. CASE MirrorFails(p) BY <2>4, FaultAdds DEF MirrorFails
  <2>5. CASE \/ OwnSeat(p) \/ WriteSeat(p) \/ MirrorContext(p) \/ MirrorBit(p)
             \/ BumpVersion(p) \/ RevokeTokens(p)
    BY <2>5 DEF OwnSeat, WriteSeat, MirrorContext, MirrorBit, BumpVersion, RevokeTokens
  <2> QED BY <1>1, <2>1, <2>2, <2>3, <2>4, <2>5 DEF Phone, Reads
<1>2. CASE \/ \E p \in Phones, u \in Users, s \in Seats : EnterSeat(p, u, s)
           \/ \E u \in Users, s \in Seats : WhenUp(u, s)
           \/ \E S \in SUBSET Seats \ {{}} : ReleaseSeats(S)
           \/ \E B \in SUBSET Seats : ResolveWinners(B)
           \/ UNCHANGED vars
  BY <1>2 DEF EnterSeat, WhenUp, ReleaseSeats, ResolveWinners, vars
<1>3. CASE ReleaseRows BY <1>3, LateAdds DEF ReleaseRows
<1>4. CASE ReleaseTorn BY <1>4, FaultAdds DEF ReleaseTorn, FaultKinds
<1>5. CASE Eliminate \/ FinishHand
  BY <1>5, LateAdds DEF Eliminate, FinishHand, EliminatePlayer
<1>6. CASE LoseRedis BY <1>6, FaultAdds DEF LoseRedis
<1>7. CASE Restart BY <1>7, FaultAdds DEF Restart, FaultKinds
<1>8. CASE \/ ReleaseMirror \/ ReleaseWrite \/ ReleaseRevoke
           \/ StartPreFlop \/ EliminateDone \/ FinishMirror \/ InitTable
  BY <1>8 DEF ReleaseMirror, ReleaseWrite, ReleaseRevoke, StartPreFlop, EliminateDone,
              FinishMirror, InitTable
<1> QED BY <1>1, <1>2, <1>3, <1>4, <1>5, <1>6, <1>7, <1>8 DEF Next

\* A phone other than the one that makes the step stays where it is, unless its
\* socket is closed; and so does a socket whose entry is not the newest.
LEMMA OldSocketsStay ==
  ASSUME Shapes, EntryShape, OldSockets, [Next]_vars
  PROVE  OldSockets'
<1> USE DEF db, redis, calls
<1> SUFFICES ASSUME Without({"torn"})', NEW p \in Phones, At(p, "live")', ~ Current(p)'
             PROVE  ClosingUnderWay(phone[p].user)'
  BY DEF OldSockets
<1>1. Without({"torn"})
  BY KindsGrow DEF Without
<1>2. At(p, "live") /\ ~ Current(p) => ClosingUnderWay(phone[p].user)
  BY <1>1 DEF OldSockets
\* nobody but the newest goes live, and nobody at "revoke" has gone
<1>3. ASSUME phone'[p] = phone[p], UNCHANGED <<newest, release>>,
             \A q \in Phones : At(q, "revoke") => phone'[q] = phone[q]
      PROVE  ClosingUnderWay(phone[p].user)'
  BY <1>2, <1>3 DEF ClosingUnderWay, At, Current
<1>4. ASSUME NEW r \in Phones, Reads(r) PROVE ClosingUnderWay(phone[p].user)'
  <2>1. UNCHANGED <<newest, release>> BY <1>4, ReadsOf DEF Rest
  <2>2. \A q \in Phones : At(q, "revoke") => phone'[q] = phone[q]
    BY <1>4, ReadsOf DEF Ended, Moved, Becomes, At, Connected
  <2>3. phone'[p] = phone[p]
    <3>1. CASE r = p
      BY <1>4, <2>1, <3>1, ReadsOf DEF Ended, Moved, At, Current, Idle
    <3>2. CASE r # p BY <1>4, <3>2, ReadsOf DEF Ended, Moved, Becomes
    <3> QED BY <3>1, <3>2
  <2> QED BY <1>3, <2>1, <2>2, <2>3
<1>5. ASSUME NEW r \in Phones,
             \/ CreateRow(r) \/ OwnSeat(r) \/ WriteSeat(r) \/ EntryFails(r)
             \/ MirrorContext(r) \/ MirrorBit(r) \/ MirrorFails(r)
      PROVE  ClosingUnderWay(phone[p].user)'
  <2>1. UNCHANGED <<newest, release>>
    BY <1>5 DEF CreateRow, OwnSeat, WriteSeat, EntryFails, MirrorContext, MirrorBit, MirrorFails
  <2>2. phone[r].pc \in Claiming
    BY <1>5 DEF CreateRow, OwnSeat, WriteSeat, EntryFails, MirrorContext, MirrorBit, MirrorFails,
                At, Claiming
  <2>3. \A q \in Phones \ {r} : phone'[q] = phone[q]
    BY <1>5, GotoOf, EndOf, MirrorOf, TokenOf
       DEF CreateRow, OwnSeat, WriteSeat, EntryFails, MirrorContext, MirrorBit, MirrorFails,
           Pcs, Claiming, Moved, Ended, Becomes
  <2>4. Follows(r)
    BY <1>5, PhoneFollows DEF Phone
  <2>5. phone'[r].pc # "live"
    BY <2>2, <2>4 DEF Follows, GoesOn, Connects, Claiming, Idle
  <2> QED BY <1>3, <2>1, <2>2, <2>3, <2>5 DEF At, Claiming
<1>6. ASSUME NEW r \in Phones, NEW u \in Users, NEW s \in Seats, EnterSeat(r, u, s)
      PROVE  ClosingUnderWay(phone[p].user)'
  <2>1. UNCHANGED <<newest, release>> BY <1>6 DEF EnterSeat
  <2>2. Becomes(r, phone'[r]) /\ phone'[r].pc = "seat" BY <1>6, EnterSeatOf
  <2> QED BY <1>3, <1>6, <2>1, <2>2 DEF Becomes, At, EnterSeat
<1>7. ASSUME NEW r \in Phones, BumpVersion(r) PROVE ClosingUnderWay(phone[p].user)'
  <2>1. Moved(r, "revoke") BY <1>7, GotoOf DEF BumpVersion, Pcs
  <2>2. release' = release /\ newest' = [newest EXCEPT ![phone[r].user] = r]
    BY <1>7 DEF BumpVersion
  <2>3. phone'[p] = phone[p] BY <2>1 DEF At, Moved, Becomes
  <2>4. CASE phone[r].user = phone[p].user
    BY <2>1, <2>3, <2>4 DEF Moved, ClosingUnderWay, At
  <2>5. CASE phone[r].user # phone[p].user
    <3>1. newest'[phone[p].user] = newest[phone[p].user]
      BY <2>2, <2>5 DEF Shapes
    <3>2. ClosingUnderWay(phone[p].user) BY <1>2, <2>3, <3>1 DEF At, Current
    <3>3. \A q \in Phones : At(q, "revoke") => phone'[q] = phone[q]
      BY <1>7, <2>1 DEF Moved, Becomes, At, BumpVersion
    <3> QED BY <2>2, <2>3, <3>2, <3>3 DEF ClosingUnderWay, At
  <2> QED BY <2>4, <2>5
<1>8. ASSUME NEW r \in Phones, RevokeTokens(r) PROVE ClosingUnderWay(phone[p].user)'
  <2>1. UNCHANGED <<newest, release>> /\ At(r, "revoke") BY <1>8 DEF RevokeTokens
  <2>2. p # r BY <1>8, RevokeOf DEF At
  <2>3. phone'[p] = CloseSockets({phone[r].user})[p] BY <1>8, <2>2, RevokeOf
  <2>4. phone'[p] = phone[p] /\ phone[p].user # phone[r].user
    BY <2>3 DEF CloseSockets, Revoked, At, Connected, Idle
  <2>5. \A q \in Phones \ {r} : At(q, "revoke") => phone'[q] = phone[q]
    <3>1. \A q \in Phones \ {r} : phone'[q] = CloseSockets({phone[r].user})[q]
      BY <1>8, RevokeOf
    <3> QED BY <3>1, ClosedOf DEF At, Connected
  <2> QED BY <1>2, <2>1, <2>4, <2>5 DEF ClosingUnderWay, At, Current
<1>9. CASE \/ \E u \in Users, s \in Seats : WhenUp(u, s)
           \/ StartPreFlop \/ \E B \in SUBSET Seats : ResolveWinners(B)
           \/ LoseRedis \/ UNCHANGED vars
  BY <1>3, <1>9 DEF WhenUp, StartPreFlop, ResolveWinners, LoseRedis, vars
<1>10. CASE Eliminate \/ FinishHand \/ EliminateDone \/ FinishMirror \/ InitTable
  BY <1>3, <1>10 DEF Eliminate, FinishHand, EliminatePlayer, EliminateDone, FinishMirror, InitTable
<1>11. CASE \E S \in SUBSET Seats \ {{}} : ReleaseSeats(S)
  BY <1>2, <1>11 DEF ReleaseSeats, ClosingUnderWay, At, Current
<1>12. CASE ReleaseRows
  <2>1. phone' = phone BY <1>12 DEF ReleaseRows
  <2>2. CASE release' = NoRelease
    <3>1. newest' = newest BY <1>12, <2>2 DEF ReleaseRows, Shapes, ReleaseShape, NoRelease
    <3>2. release.pc = "tx" BY <1>12 DEF ReleaseRows
    <3> QED BY <1>2, <2>1, <3>1, <3>2 DEF ClosingUnderWay, At, Current
  <2>3. CASE release' # NoRelease
    <3>1. release' = [release EXCEPT !.pc = "mirror"]
          /\ newest' = [u \in Users |-> IF u \in release.users THEN Nobody ELSE newest[u]]
      BY <1>12, <2>3 DEF ReleaseRows
    <3>2. release'.pc = "mirror" /\ release'.users = release.users /\ release.pc = "tx"
      BY <1>12, <3>1 DEF ReleaseRows, Shapes, ReleaseShape
    <3>3. phone[p].user \in Users BY <2>1 DEF EntryShape, At
    <3> QED BY <1>2, <2>1, <3>1, <3>2, <3>3 DEF ClosingUnderWay, At, Current
  <2> QED BY <2>2, <2>3
<1>13. CASE ReleaseMirror \/ ReleaseWrite
  <2>1. phone' = phone /\ newest' = newest BY <1>13 DEF ReleaseMirror, ReleaseWrite
  <2>2. release'.users = release.users /\ release'.pc \in {"write", "revoke"}
    BY <1>13 DEF ReleaseMirror, ReleaseWrite, Shapes, ReleaseShape
  <2> QED BY <1>2, <2>1, <2>2 DEF ClosingUnderWay, At, Current
<1>14. CASE ReleaseRevoke
  <2>1. newest' = newest /\ phone' = CloseSockets(release.users) BY <1>14 DEF ReleaseRevoke
  <2>2. phone'[p] = phone[p] /\ phone[p].user \notin release.users
    BY <2>1 DEF CloseSockets, Revoked, At, Connected, Idle
  <2>3. \A q \in Phones : At(q, "revoke") => phone'[q] = phone[q]
    BY <2>1, ClosedOf DEF At, Connected
  <2> QED BY <1>2, <2>1, <2>2, <2>3 DEF ClosingUnderWay, At, Current
<1>15. CASE ReleaseTorn
  BY <1>15, FaultAdds DEF ReleaseTorn, Without, FaultKinds
<1>16. CASE Restart
  BY <1>16, RestartOf DEF At, Idle
<1> QED BY <1>4, <1>5, <1>6, <1>7, <1>8, <1>9, <1>10, <1>11, <1>12, <1>13, <1>14, <1>15, <1>16
        DEF Next, Phone, Reads

-----------------------------------------------------------------------------
(* The lock and the rows.                                                   *)

\* The steps that leave the lock, the rows, the statuses and the release alone,
\* and the occupants with them.
QuietPhone(p) ==
  \/ Reads(p) \/ BumpVersion(p) \/ RevokeTokens(p)
  \/ MirrorContext(p) \/ MirrorBit(p) \/ MirrorFails(p)
  \/ \E u \in Users, s \in Seats : EnterSeat(p, u, s)

Quiet ==
  \/ \E p \in Phones : QuietPhone(p)
  \/ \E u \in Users, s \in Seats : WhenUp(u, s)
  \/ UNCHANGED vars

LEMMA QuietPhones ==
  ASSUME Shapes, NEW p \in Phones, QuietPhone(p)
  PROVE  /\ phone[p].pc \notin {"create", "claim", "write"}
         /\ \A q \in Phones \ {p} : \/ phone'[q] = phone[q]
                                    \/ phone[q].pc \in Connected /\ phone'[q] = Idle("end")
<1>1. phone[p].pc \notin {"create", "claim", "write"}
  BY ReadsOf DEF QuietPhone, BumpVersion, RevokeTokens, MirrorContext, MirrorBit, MirrorFails,
                 EnterSeat, At, Connected
<1>2. ASSUME NEW q \in Phones \ {p}
      PROVE  phone'[q] = phone[q] \/ (phone[q].pc \in Connected /\ phone'[q] = Idle("end"))
  <2>1. CASE RevokeTokens(p)
    <3>1. phone'[q] = CloseSockets({phone[p].user})[q] BY <2>1, RevokeOf
    <3> QED BY <3>1, ClosedOf
  <2>2. CASE Reads(p) BY <2>2, ReadsOf DEF Ended, Moved, Becomes
  <2>3. CASE \E u \in Users, s \in Seats : EnterSeat(p, u, s)
    BY <2>3, EnterSeatOf DEF Becomes
  <2>4. CASE BumpVersion(p) BY <2>4, GotoOf DEF BumpVersion, Pcs, Moved, Becomes
  <2>5. CASE MirrorContext(p) \/ MirrorBit(p) \/ MirrorFails(p)
    BY <2>5, GotoOf, TokenOf DEF MirrorContext, MirrorBit, MirrorFails, Pcs, Claiming, Moved,
                                 Becomes
  <2> QED BY <2>1, <2>2, <2>3, <2>4, <2>5 DEF QuietPhone
<1> QED BY <1>1, <1>2

LEMMA QuietOf ==
  ASSUME Shapes, Quiet
  PROVE  /\ UNCHANGED <<rows, status, snap, lock, release, hand>>
         /\ \A q \in Phones : phone'[q].pc = "write" => phone'[q] = phone[q]
<1> USE DEF db, redis
<1>1. ASSUME NEW p \in Phones, QuietPhone(p)
      PROVE  UNCHANGED <<rows, status, snap, lock, release, hand>>
  <2>1. CASE Reads(p) BY <2>1, ReadsOf DEF Rest
  <2>2. CASE ~ Reads(p)
    BY <1>1, <2>2 DEF QuietPhone, BumpVersion, RevokeTokens, MirrorContext, MirrorBit,
                      MirrorFails, EnterSeat
  <2> QED BY <2>1, <2>2
<1>2. ASSUME NEW p \in Phones, QuietPhone(p), NEW q \in Phones, phone'[q].pc = "write"
      PROVE  phone'[q] = phone[q]
  <2>1. [Next]_vars BY <1>2 DEF QuietPhone, Reads, Next, Phone
  <2>2. phone'[q] = phone[q] \/ phone[q].pc = "claim"
    BY <1>2, <2>1, PhonesFollow DEF Follows, GoesOn, Connects, Idle
  <2> QED BY <1>2, <2>2, QuietPhones DEF Idle, Connected
<1> QED BY <1>1, <1>2 DEF Quiet, WhenUp, vars

\* The steps of an entry before its mirror: they are about their own phone.
Entry(p) == CreateRow(p) \/ OwnSeat(p) \/ WriteSeat(p) \/ EntryFails(p)

LEMMA EntryOf ==
  ASSUME Shapes, NEW p \in Phones, Entry(p)
  PROVE  \A q \in Phones \ {p} : phone'[q] = phone[q]
  BY GotoOf, EndOf, MirrorOf
     DEF Entry, CreateRow, OwnSeat, WriteSeat, EntryFails, Pcs, Claiming, Moved, Ended, Becomes

LEMMA Steps ==
  ASSUME [Next]_vars
  PROVE  \/ Quiet \/ \E p \in Phones : Entry(p)
         \/ ReleaseStep \/ HandStep \/ LoseRedis \/ Restart
  BY DEF Next, Phone, Quiet, QuietPhone, Reads, Entry, ReleaseStep, HandStep

LEMMA LockStays ==
  ASSUME Shapes, EntryShape, LockHeld, [Next]_vars
  PROVE  LockHeld'
<1> USE DEF db, redis, calls
<1> DEFINE R == release.pc \in {"tx", "mirror", "write"} =>
                  lock = "release" /\ release.users = {snap.occ[s] : s \in release.seats}
           H == hand # "idle" => lock = "hand"
           W == \A p \in Phones : At(p, "write") => lock = p /\ For(p, phone[p].seat)
<1>1. R /\ H /\ W BY DEF LockHeld
<1>2. CASE Quiet
  <2>1. W' BY <1>1, <1>2, QuietOf DEF At, For
  <2> QED BY <1>1, <1>2, <2>1, QuietOf DEF LockHeld
<1>3. ASSUME NEW p \in Phones, CreateRow(p) PROVE LockHeld'
  <2>1. \A q \in Phones : phone'[q].pc = "write" => phone'[q] = phone[q]
    BY <1>3, EntryOf, GotoOf, EndOf DEF Entry, CreateRow, Pcs, Claiming, Moved, Ended, Idle
  <2>2. \A s \in Seats : rows[s] # Nobody => rows'[s] = rows[s]
    BY <1>3 DEF CreateRow, Shapes
  <2>3. W'
    <3> SUFFICES ASSUME NEW q \in Phones, phone'[q].pc = "write"
                 PROVE  lock' = q /\ For(q, phone[q].seat)'
      BY DEF At
    <3>1. phone'[q] = phone[q] BY <2>1
    <3>2. lock = q /\ rows[phone[q].seat] = phone[q].user BY <1>1, <3>1 DEF At, For
    <3>3. phone[q].user # Nobody /\ phone[q].seat \in Seats
      BY <3>1, NobodyAssumption DEF EntryShape, Claiming
    <3> QED BY <1>3, <2>2, <3>1, <3>2, <3>3 DEF For, CreateRow
  <2> QED BY <1>1, <1>3, <2>3 DEF LockHeld, CreateRow
<1>4. ASSUME NEW p \in Phones, OwnSeat(p) PROVE LockHeld'
  <2>1. lock = "free" /\ UNCHANGED <<rows, snap, release, hand>> BY <1>4 DEF OwnSeat
  <2>2. \A q \in Phones : ~ At(q, "write") BY <1>1, <2>1, HolderAssumption
  <2>3. \A q \in Phones \ {p} : phone'[q].pc # "write"
    BY <1>4, <2>2, EntryOf DEF Entry, At
  <2>4. phone'[p].pc = "write" => lock' = p /\ For(p, phone[p].seat)'
    BY <1>4, GotoOf, EndOf, MirrorOf DEF OwnSeat, Pcs, Claiming, Moved, Ended, Idle, For
  <2> QED BY <1>1, <2>1, <2>3, <2>4 DEF LockHeld, At
<1>5. ASSUME NEW p \in Phones, WriteSeat(p) PROVE LockHeld'
  <2>1. lock = p BY <1>1, <1>5 DEF WriteSeat
  <2>2. \A q \in Phones : phone'[q].pc # "write"
    BY <1>1, <1>5, <2>1, EntryOf, MirrorOf DEF Entry, WriteSeat, Moved, At
  <2>3. UNCHANGED <<release, hand>> BY <1>5 DEF WriteSeat
  <2>4. release.pc \notin {"tx", "mirror", "write"} /\ hand = "idle"
    BY <1>1, <2>1, HolderAssumption
  <2> QED BY <2>2, <2>3, <2>4 DEF LockHeld, At
<1>6. ASSUME NEW p \in Phones, EntryFails(p) PROVE LockHeld'
  <2>1. UNCHANGED <<rows, snap, release, hand>> BY <1>6 DEF EntryFails
  <2>2. phone'[p].pc = "end" BY <1>6, EndOf DEF EntryFails, Ended, Idle
  <2>3. \A q \in Phones \ {p} : phone'[q] = phone[q] BY <1>6, EntryOf DEF Entry
  <2>4. lock' = IF lock = p THEN "free" ELSE lock BY <1>6 DEF EntryFails
  <2>5. R' /\ H' BY <1>1, <2>1, <2>4, HolderAssumption
  <2>6. W' BY <1>1, <2>1, <2>2, <2>3, <2>4 DEF At, For
  <2> QED BY <2>5, <2>6 DEF LockHeld
<1>7. CASE ReleaseStep
  <2>1. CASE \E S \in SUBSET Seats \ {{}} : ReleaseSeats(S)
    <3>1. PICK S \in SUBSET Seats \ {{}} : ReleaseSeats(S) BY <2>1
    <3>2. lock = "free" BY <3>1 DEF ReleaseSeats
    <3>3. hand = "idle" /\ \A q \in Phones : ~ At(q, "write") BY <1>1, <3>2, HolderAssumption
    <3> QED BY <3>1, <3>3 DEF LockHeld, ReleaseSeats, At
  <2>2. CASE ReleaseRows
    <3>1. lock = "release" BY <1>1, <2>2 DEF ReleaseRows
    <3>2. hand = "idle" /\ \A q \in Phones : ~ At(q, "write") BY <1>1, <3>1, HolderAssumption
    <3>3. R'
      BY <1>1, <2>2 DEF ReleaseRows, NoRelease, Shapes, ReleaseShape
    <3> QED BY <2>2, <3>2, <3>3 DEF LockHeld, ReleaseRows, At
  <2>3. CASE ReleaseMirror \/ ReleaseWrite \/ ReleaseTorn
    <3>1. lock = "release" BY <1>1, <2>3 DEF ReleaseMirror, ReleaseWrite, ReleaseTorn
    <3>2. hand = "idle" /\ \A q \in Phones : ~ At(q, "write") BY <1>1, <3>1, HolderAssumption
    <3>3. R'
      BY <1>1, <2>3 DEF ReleaseMirror, ReleaseWrite, ReleaseTorn, NoRelease, Shapes, ReleaseShape
    <3> QED BY <2>3, <3>2, <3>3 DEF LockHeld, ReleaseMirror, ReleaseWrite, ReleaseTorn, At
  <2>4. CASE ReleaseRevoke
    <3>1. R' BY <2>4 DEF ReleaseRevoke, NoRelease
    <3>2. W' BY <1>1, <2>4, ClosedOf DEF ReleaseRevoke, At, For, Idle
    <3> QED BY <1>1, <2>4, <3>1, <3>2 DEF LockHeld, ReleaseRevoke
  <2> QED BY <1>7, <2>1, <2>2, <2>3, <2>4 DEF ReleaseStep
<1>8. CASE HandStep
  <2>1. CASE StartPreFlop \/ \E B \in SUBSET Seats : ResolveWinners(B)
    <3>1. lock = "free" /\ UNCHANGED <<phone, rows, lock, hand, release>>
      BY <2>1 DEF StartPreFlop, ResolveWinners
    <3> QED BY <1>1, <3>1, HolderAssumption DEF LockHeld, At
  <2>2. CASE Eliminate \/ FinishHand
    <3>1. lock = "free" /\ lock' = "hand" /\ UNCHANGED <<phone, release>>
      BY <2>2 DEF Eliminate, FinishHand, EliminatePlayer
    <3> QED BY <1>1, <3>1, HolderAssumption DEF LockHeld, At
  <2>3. CASE EliminateDone \/ FinishMirror \/ InitTable
    <3>1. lock = "hand" /\ UNCHANGED <<phone, release>>
      BY <1>1, <2>3 DEF EliminateDone, FinishMirror, InitTable
    <3>2. H' BY <1>1, <2>3 DEF EliminateDone, FinishMirror, InitTable
    <3> QED BY <1>1, <3>1, <3>2, HolderAssumption DEF LockHeld, At
  <2> QED BY <1>8, <2>1, <2>2, <2>3 DEF HandStep
<1>9. CASE LoseRedis
  <2>1. lock = "free" /\ UNCHANGED <<phone, release, hand, lock, rows>> BY <1>9 DEF LoseRedis
  <2> QED BY <1>1, <2>1, HolderAssumption DEF LockHeld, At
<1>10. CASE Restart
  BY <1>10, RestartOf DEF Restart, LockHeld, NoRelease, At, Idle
<1> QED BY <1>2, <1>3, <1>4, <1>5, <1>6, <1>7, <1>8, <1>9, <1>10, Steps DEF Entry

\* The user and the seat of an entry.
LEMMA EntryNames ==
  ASSUME EntryShape, NEW p \in Phones, phone[p].pc \in {"seat", "table"} \union Claiming
  PROVE  phone[p].user \in Users /\ phone[p].seat \in Seats /\ phone[p].user # Nobody
  BY NobodyAssumption DEF EntryShape, Claiming

LEMMA RowsPlayStay ==
  ASSUME Shapes, EntryShape, LockHeld, RowsPlay, [Next]_vars
  PROVE  RowsPlay'
<1> USE DEF redis, calls
<1> SUFFICES ASSUME Without({"raced"})', NEW s \in Seats, rows'[s] # Nobody
             PROVE  status'[rows'[s]] = "playing"
  BY DEF RowsPlay
<1>1. Without({"raced"}) BY KindsGrow DEF Without
<1>2. \A t \in Seats : rows[t] # Nobody => status[rows[t]] = "playing" /\ rows[t] \in Users
  BY <1>1 DEF RowsPlay, Shapes, User
<1>3. CASE Quiet \/ LoseRedis
  BY <1>2, <1>3, QuietOf DEF LoseRedis, db
<1>4. ASSUME NEW p \in Phones, CreateRow(p) PROVE status'[rows'[s]] = "playing"
  <2> DEFINE u == phone[p].user
  <2>1. u \in Users /\ phone[p].seat \in Seats BY <1>4, EntryNames DEF CreateRow, At, Claiming
  <2>2. CASE rows' = rows
    BY <1>2, <1>4, <2>1, <2>2 DEF CreateRow, Shapes
  <2>3. CASE rows' # rows
    <3>1. /\ rows' = [rows EXCEPT ![phone[p].seat] = u] /\ SeatOf(u, rows) = {}
          /\ status' = [status EXCEPT ![u] = IF @ \in {"waiting", "released"}
                                               THEN "playing" ELSE @]
          /\ faults' = IF status[u] = "eliminated"
                         THEN [faults EXCEPT !.kinds = @ \union {"raced"}] ELSE faults
      BY <1>4, <2>3 DEF CreateRow
    <3>2. status[u] # "eliminated" BY <3>1 DEF Without, Shapes, FaultShape
    <3>3. status'[u] = "playing" BY <2>1, <3>1, <3>2 DEF Shapes
    <3>4. s # phone[p].seat => rows'[s] = rows[s] /\ rows[s] # u BY <3>1 DEF Shapes, SeatOf
    <3>5. s = phone[p].seat => rows'[s] = u BY <2>1, <3>1 DEF Shapes
    <3> QED BY <1>2, <3>1, <3>3, <3>4, <3>5 DEF Shapes
  <2> QED BY <2>2, <2>3
<1>5. ASSUME NEW p \in Phones, OwnSeat(p) \/ WriteSeat(p) \/ EntryFails(p)
      PROVE  status'[rows'[s]] = "playing"
  BY <1>2, <1>5 DEF OwnSeat, WriteSeat, EntryFails, db
<1>6. CASE ReleaseRows
  <2>1. CASE rows' = rows /\ status' = status BY <1>2, <2>1
  <2>2. CASE ~ (rows' = rows /\ status' = status)
    <3>1. /\ \A t \in release.seats : rows[t] = snap.occ[t]
          /\ rows' = [t \in Seats |-> IF t \in release.seats THEN Nobody ELSE rows[t]]
          /\ status' = [u \in Users |-> IF u \in release.users THEN "released" ELSE status[u]]
      BY <1>6, <2>2 DEF ReleaseRows, db
    <3>2. release.users = {snap.occ[t] : t \in release.seats} /\ release.seats \subseteq Seats
      BY <1>6 DEF LockHeld, ReleaseRows, Shapes, ReleaseShape
    <3>3. s \notin release.seats /\ rows'[s] = rows[s] BY <3>1
    <3>4. rows[s] \notin release.users BY <3>1, <3>2, <3>3 DEF EntryShape
    <3> QED BY <1>2, <3>1, <3>3, <3>4
  <2> QED BY <2>1, <2>2
<1>7. CASE ReleaseStep /\ ~ ReleaseRows
  <2>1. UNCHANGED <<rows, status>>
    BY <1>7 DEF ReleaseStep, ReleaseSeats, ReleaseMirror, ReleaseWrite, ReleaseRevoke, ReleaseTorn,
                db
  <2> QED BY <1>2, <2>1
<1>8. CASE Eliminate \/ FinishHand
  <2>1. /\ rows' = [t \in Seats |-> IF rows[t] \in Broke THEN Nobody ELSE rows[t]]
        /\ status' = [u \in Users |-> IF u \in Broke THEN "eliminated" ELSE status[u]]
    BY <1>8 DEF Eliminate, FinishHand, EliminatePlayer
  <2> QED BY <1>2, <2>1
<1>9. CASE HandStep /\ ~ Eliminate /\ ~ FinishHand
  <2>1. UNCHANGED <<rows, status>>
    BY <1>9 DEF HandStep, StartPreFlop, ResolveWinners, EliminateDone, FinishMirror, InitTable, db
  <2> QED BY <1>2, <2>1
<1>10. CASE Restart
  <2>1. status' = status /\ Boot BY <1>10 DEF Restart
  <2>2. rows'[s] = rows[s] BY <2>1, BootOf DEF Keep
  <2> QED BY <1>2, <2>1, <2>2
<1> QED BY <1>3, <1>4, <1>5, <1>6, <1>7, <1>8, <1>9, <1>10, Steps DEF Entry

LEMMA OccupantsStay ==
  ASSUME Shapes, EntryShape, LockHeld, RowsPlay, OccupantsOwn, [Next]_vars
  PROVE  OccupantsOwn'
<1> USE DEF redis, calls
<1> DEFINE Mid == release.pc \in {"mirror", "write"}
           Race == ~ Without({"raced"})
           Own(s) == \/ rows[s] = snap.occ[s]
                     \/ Mid /\ s \in release.seats
                     \/ status[snap.occ[s]] = "eliminated" /\ (s \in snap.bust \/ Race)
<1> SUFFICES ASSUME Without({"torn"})', NEW s \in Seats, snap'.occ[s] # Nobody
             PROVE  Own(s)'
  BY DEF OccupantsOwn
<1>1. Without({"torn"}) /\ (Race => Race') BY KindsGrow DEF Without
<1>2. \A t \in Seats : snap.occ[t] # Nobody => Own(t) /\ snap.occ[t] \in Users
  BY <1>1 DEF OccupantsOwn, Shapes, SnapShape, User
<1>3. CASE Quiet
  BY <1>1, <1>2, <1>3, QuietOf
<1>4. ASSUME NEW p \in Phones, CreateRow(p) PROVE Own(s)'
  <2> DEFINE u == phone[p].user
  <2>1. u \in Users /\ phone[p].seat \in Seats BY <1>4, EntryNames DEF CreateRow, At, Claiming
  <2>2. UNCHANGED <<snap, release>> BY <1>4 DEF CreateRow
  <2>3. rows[s] # Nobody => rows'[s] = rows[s] BY <1>4 DEF CreateRow, Shapes
  <2>4. \A v \in Users : status[v] = "eliminated" => status'[v] = "eliminated"
    BY <1>4 DEF CreateRow, Shapes
  <2> QED BY <1>1, <1>2, <2>2, <2>3, <2>4
<1>5. ASSUME NEW p \in Phones, OwnSeat(p) \/ EntryFails(p) PROVE Own(s)'
  <2>1. UNCHANGED <<rows, status, snap, release>> BY <1>5 DEF OwnSeat, EntryFails, db
  <2> QED BY <1>1, <1>2, <2>1
<1>6. ASSUME NEW p \in Phones, WriteSeat(p) PROVE Own(s)'
  <2>1. phone[p].seat \in Seats /\ rows[phone[p].seat] = phone[p].user
    BY <1>6, EntryNames DEF WriteSeat, At, Claiming, LockHeld, For
  <2>2. UNCHANGED <<rows, status, release>> BY <1>6 DEF WriteSeat, db
  <2>3. snap'.occ = [snap.occ EXCEPT ![phone[p].seat] = phone[p].user]
        /\ snap'.bust = snap.bust \ {phone[p].seat}
    BY <1>6 DEF WriteSeat, Shapes, SnapShape
  <2>4. CASE s = phone[p].seat BY <2>1, <2>2, <2>3, <2>4 DEF Shapes, SnapShape
  <2>5. CASE s # phone[p].seat
    <3>1. snap'.occ[s] = snap.occ[s] /\ (s \in snap.bust => s \in snap'.bust)
      BY <2>3, <2>5 DEF Shapes, SnapShape
    <3> QED BY <1>1, <1>2, <2>2, <3>1
  <2> QED BY <2>4, <2>5
<1>7. CASE ReleaseRows
  <2>1. UNCHANGED snap BY <1>7 DEF ReleaseRows
  <2>2. CASE release' = NoRelease
    <3>1. UNCHANGED <<rows, status>> /\ ~ Mid
      BY <1>7, <2>2 DEF ReleaseRows, db, NoRelease, Shapes, ReleaseShape
    <3> QED BY <1>1, <1>2, <2>1, <3>1
  <2>3. CASE release' # NoRelease
    <3>1. /\ \A u \in release.users : status[u] = "playing"
          /\ rows' = [t \in Seats |-> IF t \in release.seats THEN Nobody ELSE rows[t]]
          /\ status' = [u \in Users |-> IF u \in release.users THEN "released" ELSE status[u]]
          /\ release' = [release EXCEPT !.pc = "mirror"] /\ ~ Mid
      BY <1>7, <2>3 DEF ReleaseRows
    <3>2. release'.pc = "mirror" /\ release'.seats = release.seats BY <3>1 DEF Shapes, ReleaseShape
    <3> QED BY <1>1, <1>2, <2>1, <3>1, <3>2
  <2> QED BY <2>2, <2>3
<1>8. CASE ReleaseWrite
  <2>1. snap'.occ = [t \in Seats |-> IF t \in release.seats THEN Nobody ELSE snap.occ[t]]
        /\ snap'.bust = snap.bust /\ UNCHANGED <<rows, status>>
    BY <1>8 DEF ReleaseWrite, Shapes, SnapShape, db
  <2> QED BY <1>1, <1>2, <2>1
<1>9. CASE ReleaseMirror
  <2>1. UNCHANGED <<rows, status, snap>> /\ release'.pc = "write" /\ release'.seats = release.seats
    BY <1>9 DEF ReleaseMirror, db, Shapes, ReleaseShape
  <2> QED BY <1>1, <1>2, <2>1
<1>10. CASE \/ \E S \in SUBSET Seats \ {{}} : ReleaseSeats(S)
            \/ ReleaseRevoke
  <2>1. UNCHANGED <<rows, status, snap>> /\ ~ Mid
    BY <1>10 DEF ReleaseSeats, ReleaseRevoke, db
  <2> QED BY <1>1, <1>2, <2>1
<1>11. CASE ReleaseTorn
  BY <1>11, FaultAdds DEF ReleaseTorn, Without, FaultKinds
<1>12. CASE StartPreFlop \/ \E B \in SUBSET Seats : ResolveWinners(B)
  <2>1. UNCHANGED <<rows, status, release>> /\ snap.phase # "HAND_END" /\ snap'.occ = snap.occ
    BY <1>12 DEF StartPreFlop, ResolveWinners, db, Shapes, SnapShape
  <2>2. snap.bust = {} BY <2>1 DEF EntryShape
  <2> QED BY <1>1, <1>2, <2>1, <2>2
<1>13. CASE Eliminate \/ FinishHand
  <2>1. /\ rows' = [t \in Seats |-> IF rows[t] \in Broke THEN Nobody ELSE rows[t]]
        /\ status' = [u \in Users |-> IF u \in Broke THEN "eliminated" ELSE status[u]]
        /\ UNCHANGED <<snap, release>> /\ lock = "free"
    BY <1>13 DEF Eliminate, FinishHand, EliminatePlayer
  <2>2. ~ Mid BY <2>1, HolderAssumption DEF LockHeld
  <2>3. snap.bust \subseteq Seats BY DEF Shapes, SnapShape
  <2>4. CASE rows'[s] = rows[s] BY <1>1, <1>2, <2>1, <2>2, <2>4
  <2>5. CASE rows'[s] # rows[s]
    <3> DEFINE u == rows[s]
    <3>1. u \in Broke /\ u # Nobody BY <2>1, <2>5
    <3>2. PICK t \in snap.bust : snap.occ[t] = u BY <3>1 DEF Broke
    <3>3. CASE snap.occ[s] = u
      <4>1. status'[u] = "eliminated" BY <1>2, <2>1, <3>1, <3>3
      <4>2. s \in snap.bust \/ Race
        <5>1. CASE t = s BY <3>2, <5>1
        <5>2. CASE t # s
          <6>1. rows[t] # u BY <2>3, <3>1, <3>2, <5>2 DEF EntryShape
          <6>2. status[u] = "eliminated" BY <1>2, <2>2, <2>3, <3>1, <3>2, <6>1
          <6> QED BY <3>1, <6>2 DEF RowsPlay
        <5> QED BY <5>1, <5>2
      <4> QED BY <1>1, <2>1, <3>3, <4>1, <4>2
    <3>4. CASE snap.occ[s] # u BY <1>1, <1>2, <2>1, <2>2, <3>4
    <3> QED BY <3>3, <3>4
  <2> QED BY <2>4, <2>5
<1>14. CASE EliminateDone \/ FinishMirror
  <2>1. UNCHANGED <<rows, status, snap, release>>
    BY <1>14 DEF EliminateDone, FinishMirror, db
  <2> QED BY <1>1, <1>2, <2>1
<1>15. CASE InitTable
  <2>1. UNCHANGED <<rows, status, release>>
        /\ snap'.occ = [t \in Seats |-> IF t \in snap.bust THEN Nobody ELSE snap.occ[t]]
    BY <1>15 DEF InitTable, db, Shapes, SnapShape
  <2> QED BY <1>1, <1>2, <2>1
<1>16. CASE LoseRedis
  BY <1>16 DEF LoseRedis, NoSnapshot
<1>17. CASE Restart
  <2>1. ~ Mid BY <1>17, FaultAdds DEF Restart, Without, FaultKinds
  <2>2. Boot /\ status' = status BY <1>17 DEF Restart
  <2>3. CASE snap.there BY <1>1, <1>2, <2>1, <2>2, <2>3, BootOf
  <2>4. CASE ~ snap.there
    <3>1. rows' = Keep /\ snap' = [EmptyTable EXCEPT !.occ = Keep] BY <2>2, <2>4, BootOf
    <3>2. snap'.occ = Keep BY <3>1, EmptyShaped DEF SnapShape
    <3> QED BY <3>1, <3>2
  <2> QED BY <2>3, <2>4
<1> QED BY <1>3, <1>4, <1>5, <1>6, <1>7, <1>8, <1>9, <1>10, <1>11, <1>12, <1>13, <1>14, <1>15,
           <1>16, <1>17, Steps DEF Entry, ReleaseStep, HandStep

-----------------------------------------------------------------------------
(* The mirrors.                                                             *)

\* The row of a mirror stays its user's until somebody takes it away, and then
\* the mirror is remembered as late.
LEMMA MirrorsStay ==
  ASSUME Shapes, EntryShape, LockHeld, MirrorsOfSeats, [Next]_vars
  PROVE  MirrorsOfSeats'
<1> USE DEF redis, calls
<1> DEFINE Going(p)  == phone[p].pc \in {"context", "bit"}
           Held(u, s) == rows[s] = u
<1> SUFFICES ASSUME Without({"late"})'
             PROVE  /\ \A p \in Phones : Going(p)' => Held(phone[p].user, phone[p].seat)'
                    /\ \A d \in deferred' : Held(d[1], d[2])'
  BY DEF MirrorsOfSeats, For
<1>1. Without({"late"}) BY KindsGrow DEF Without
<1>2. /\ \A p \in Phones : Going(p) => Held(phone[p].user, phone[p].seat)
      /\ \A d \in deferred : Held(d[1], d[2])
  BY <1>1 DEF MirrorsOfSeats, For
<1>3. \A p \in Phones : Going(p) => phone[p].user \in Users /\ phone[p].seat \in Seats
  BY DEF EntryShape, Claiming
<1>4. \A d \in deferred : d[1] \in Users /\ d[2] \in Seats BY DEF Shapes
\* nobody's row goes, and only the owner of a row begins a mirror
<1>5. ASSUME \A s \in Seats : rows[s] # Nobody => rows'[s] = rows[s],
             deferred' = deferred,
             \A p \in Phones : Going(p)' => \/ Going(p) /\ phone'[p].user = phone[p].user
                                                /\ phone'[p].seat = phone[p].seat
                                            \/ Held(phone[p].user, phone[p].seat)'
      PROVE  /\ \A p \in Phones : Going(p)' => Held(phone[p].user, phone[p].seat)'
             /\ \A d \in deferred' : Held(d[1], d[2])'
  BY <1>2, <1>3, <1>4, <1>5, NobodyAssumption
<1>6. ASSUME NEW p \in Phones, Entry(p)
      PROVE  /\ \A q \in Phones : Going(q)' => Held(phone[q].user, phone[q].seat)'
             /\ \A d \in deferred' : Held(d[1], d[2])'
  <2>1. \A q \in Phones \ {p} : phone'[q] = phone[q] BY <1>6, EntryOf
  <2>2. \A s \in Seats : rows[s] # Nobody => rows'[s] = rows[s]
    BY <1>6 DEF Entry, CreateRow, OwnSeat, WriteSeat, EntryFails, Shapes, db
  <2>3. Going(p)' => Held(phone[p].user, phone[p].seat)'
    <3>1. CASE CreateRow(p)
      BY <3>1, GotoOf, EndOf DEF CreateRow, Pcs, Claiming, Moved, Ended, Idle
    <3>2. CASE OwnSeat(p)
      BY <3>2, GotoOf, EndOf, MirrorOf DEF OwnSeat, Pcs, Claiming, Moved, Ended, Idle, db
    <3>3. CASE WriteSeat(p)
      BY <3>3, MirrorOf DEF WriteSeat, Moved, LockHeld, For, db
    <3>4. CASE EntryFails(p)
      BY <3>4, EndOf DEF EntryFails, Ended, Idle
    <3> QED BY <1>6, <3>1, <3>2, <3>3, <3>4 DEF Entry
  <2>4. deferred' = deferred BY <1>6 DEF Entry, CreateRow, OwnSeat, WriteSeat, EntryFails
  <2> QED BY <1>5, <2>1, <2>2, <2>3, <2>4
<1>7. ASSUME NEW p \in Phones, QuietPhone(p)
      PROVE  /\ \A q \in Phones : Going(q)' => Held(phone[q].user, phone[q].seat)'
             /\ \A d \in deferred' : Held(d[1], d[2])'
  <2>1. Quiet BY <1>7 DEF Quiet
  <2>2. rows' = rows BY <2>1, QuietOf
  <2>3. \A q \in Phones : phone[q].pc \in {"create", "claim", "write"} => phone'[q] = phone[q]
    BY <1>7, QuietPhones DEF Connected
  <2>5. \A q \in Phones : Going(q)' => Going(q) /\ phone'[q].user = phone[q].user
                                                /\ phone'[q].seat = phone[q].seat
    <3> SUFFICES ASSUME NEW q \in Phones, Going(q)'
                 PROVE  Going(q) /\ phone'[q].user = phone[q].user /\ phone'[q].seat = phone[q].seat
      OBVIOUS
    <3>1. Follows(q) BY PhonesFollow
    <3> QED BY <2>3, <3>1 DEF Follows, GoesOn, Connects, Idle
  <2>6. \A d \in deferred' : d \in deferred \/ (Going(p) /\ d = <<phone[p].user, phone[p].seat>>)
    <3>1. CASE MirrorFails(p) BY <3>1 DEF MirrorFails
    <3>2. CASE ~ MirrorFails(p)
      BY <1>7, <3>2, ReadsOf DEF QuietPhone, Rest, BumpVersion, RevokeTokens, MirrorContext,
                                 MirrorBit, EnterSeat
    <3> QED BY <3>1, <3>2
  <2> QED BY <1>2, <2>2, <2>5, <2>6
<1>8. CASE \E u \in Users, s \in Seats : WhenUp(u, s)
  <2>1. rows' = rows /\ phone' = phone /\ deferred' \subseteq deferred
    BY <1>8 DEF WhenUp, db
  <2> QED BY <1>2, <2>1
<1>9. ASSUME NEW U, faults' = LateMirrors(U), phone' = phone, deferred' = deferred,
             \A s \in Seats : rows'[s] = rows[s] \/ rows[s] \in U
      PROVE  /\ \A p \in Phones : Going(p)' => Held(phone[p].user, phone[p].seat)'
             /\ \A d \in deferred' : Held(d[1], d[2])'
  <2>1. /\ ~ \E p \in Phones : phone[p].user \in U /\ phone[p].pc \in {"context", "bit"}
        /\ ~ \E d \in deferred : d[1] \in U
    BY <1>9 DEF LateMirrors, Without, Shapes, FaultShape
  <2> QED BY <1>2, <1>3, <1>4, <1>9, <2>1
<1>10. CASE ReleaseRows
  <2>1. phone' = phone /\ deferred' = deferred BY <1>10 DEF ReleaseRows
  <2>2. CASE rows' = rows BY <1>2, <2>1, <2>2
  <2>3. CASE rows' # rows
    <3>1. /\ rows' = [s \in Seats |-> IF s \in release.seats THEN Nobody ELSE rows[s]]
          /\ \A s \in release.seats : rows[s] = snap.occ[s]
          /\ faults' = LateMirrors(release.users) /\ release.pc = "tx"
      BY <1>10, <2>3 DEF ReleaseRows, db
    <3>2. release.users = {snap.occ[s] : s \in release.seats} BY <3>1 DEF LockHeld
    <3> QED BY <1>9, <2>1, <3>1, <3>2
  <2> QED BY <2>2, <2>3
<1>11. CASE Eliminate \/ FinishHand
  <2>1. /\ rows' = [s \in Seats |-> IF rows[s] \in Broke THEN Nobody ELSE rows[s]]
        /\ faults' = LateMirrors(Broke) /\ UNCHANGED <<phone, deferred>>
    BY <1>11 DEF Eliminate, FinishHand, EliminatePlayer
  <2> QED BY <1>9, <2>1
<1>12. CASE ReleaseStep /\ ~ ReleaseRows
  <2>1. UNCHANGED <<rows, deferred>>
    BY <1>12 DEF ReleaseStep, ReleaseSeats, ReleaseMirror, ReleaseWrite, ReleaseRevoke,
                 ReleaseTorn, db
  <2>2. \A p \in Phones : Going(p)' => phone'[p] = phone[p]
    BY <1>12, ClosedOf DEF ReleaseStep, ReleaseSeats, ReleaseMirror, ReleaseWrite, ReleaseRevoke,
                           ReleaseTorn, Idle
  <2> QED BY <1>2, <2>1, <2>2
<1>13. CASE HandStep /\ ~ Eliminate /\ ~ FinishHand
  <2>1. UNCHANGED <<rows, deferred, phone>>
    BY <1>13 DEF HandStep, StartPreFlop, ResolveWinners, EliminateDone, FinishMirror, InitTable, db
  <2> QED BY <1>2, <2>1
<1>14. CASE LoseRedis \/ UNCHANGED vars
  <2>1. UNCHANGED <<rows, deferred, phone>> BY <1>14 DEF LoseRedis, vars, db
  <2> QED BY <1>2, <2>1
<1>15. CASE Restart
  <2>1. deferred' = {} BY <1>15 DEF Restart
  <2>2. \A p \in Phones : ~ Going(p)' BY <1>15, RestartOf DEF Idle
  <2> QED BY <2>1, <2>2
<1> QED BY <1>6, <1>7, <1>8, <1>10, <1>11, <1>12, <1>13, <1>14, <1>15, Steps DEF Quiet

-----------------------------------------------------------------------------
(* The four places of a seat.                                               *)

\* The places an entry may be at while one of the four is not yet right.
Stages == {{"claim"}, {"claim", "write"}, {"claim", "write", "context"},
           {"claim", "write", "context", "bit"}}

\* An entry that has not had the lock yet sets everything right.
LEMMA ClaimKeeps ==
  ASSUME NEW s, Entering(s, {"claim"})'
  PROVE  SeatKept(s)'
  BY DEF SeatKept, Entering

\* A step that takes nothing from any of the four places, and no entry off its way.
LEMMA NothingLost ==
  ASSUME Shapes, NEW s \in Seats, SeatKept(s), rows'[s] = rows[s],
         ~ Without({"late"}) => ~ Without({"late"})',
         \A X \in Stages : Entering(s, X) => Entering(s, X)',
         Clearing(s)' => Clearing(s) \/ Entering(s, {"claim"})',
         snap'.occ[s] = snap.occ[s],
         context[rows[s]] = s => context'[rows[s]] = s \/ ~ Without({"late"})',
         bits'.there = bits.there,
         s \in bits.on => s \in bits'.on,
         <<rows[s], s>> \in deferred => <<rows[s], s>> \in deferred'
  PROVE  SeatKept(s)'
<1> USE DEF Stages
<1>1. Clearing(s)' => Entering(s, {"claim"})' BY DEF SeatKept
<1>2. (snap.occ[s] = rows[s])' \/ Entering(s, {"claim", "write"})' BY DEF SeatKept
<1>3. Entering(s, {"claim"})' => Entering(s, {"claim", "write", "context"})'
                                /\ Entering(s, {"claim", "write", "context", "bit"})'
  BY DEF Entering
<1>4. \/ (context[rows[s]] = s)' \/ ~ Without({"late"})' \/ (<<rows[s], s>> \in deferred)'
      \/ Entering(s, {"claim", "write", "context"})'
  BY <1>3 DEF SeatKept
<1>5. \/ (s \in bits.on)' \/ (<<rows[s], s>> \in deferred)'
      \/ Entering(s, {"claim", "write", "context", "bit"})'
  BY <1>3 DEF SeatKept
<1>6. bits'.there \/ Entering(s, {"claim"})' BY DEF SeatKept
<1> QED BY <1>1, <1>2, <1>4, <1>5, <1>6 DEF SeatKept

\* The entries at a seat stay, but for the one that makes the step.
LEMMA OthersStay ==
  ASSUME NEW s \in Seats, NEW X, rows'[s] = rows[s], Entering(s, X),
         \A q \in Phones : For(q, s) /\ phone[q].pc \in X
                             => phone'[q].user = phone[q].user /\ phone'[q].seat = phone[q].seat
                                /\ phone'[q].pc \in X
  PROVE  Entering(s, X)'
  BY DEF Entering, For

\* While somebody else has the lock nothing is being cleared.
LEMMA NotClearing ==
  ASSUME LockHeld, lock \notin {"release", "hand"}
  PROVE  \A s : ~ Clearing(s)
  BY DEF Clearing, LockHeld

LEMMA KeptByEntry ==
  ASSUME Shapes, EntryShape, LockHeld, SeatsKept, [Next]_vars, NEW p \in Phones, Entry(p),
         NEW s \in Seats, s \notin hurt', rows'[s] # Nobody
  PROVE  SeatKept(s)'
<1> USE DEF redis, db
<1> DEFINE u == phone[p].user
           t == phone[p].seat
<1>1. u \in Users /\ t \in Seats /\ u # Nobody /\ phone[p].pc \in {"create", "claim", "write"}
  BY EntryNames DEF Entry, CreateRow, OwnSeat, WriteSeat, EntryFails, At, Claiming
<1>2. \A q \in Phones \ {p} : phone'[q] = phone[q] BY EntryOf
<1>3. UNCHANGED <<bits, context, deferred, release, hand>>
  BY DEF Entry, CreateRow, OwnSeat, WriteSeat, EntryFails
<1>4. ~ Without({"late"}) => ~ Without({"late"})' BY KindsGrow DEF Without
\* a seat that p is not entering for its owner
<1>5. ASSUME rows'[s] = rows[s], s \notin hurt, snap'.occ[s] = snap.occ[s],
             snap'.bust \subseteq snap.bust,
             Clearing(s)' => Clearing(s),
             ~ For(p, s) \/ phone[p].pc = "create"
      PROVE  SeatKept(s)'
  <2>1. SeatKept(s) BY <1>5 DEF SeatsKept
  <2>2. ASSUME NEW X \in Stages, Entering(s, X) PROVE Entering(s, X)'
    BY <1>2, <1>5, <2>2, OthersStay DEF Stages
  <2> QED BY <1>3, <1>4, <1>5, <2>1, <2>2, NothingLost
<1>6. CASE CreateRow(p)
  <2>1. UNCHANGED <<snap, hurt>> BY <1>6 DEF CreateRow
  <2>2. CASE s = t /\ rows[t] = Nobody
    <3>1. rows'[s] = u /\ Moved(p, "claim")
      BY <1>1, <1>6, <2>2, GotoOf DEF CreateRow, Shapes, Pcs, Claiming
    <3>2. Entering(s, {"claim"})' BY <2>2, <3>1 DEF Entering, For, Moved
    <3> QED BY <3>2, ClaimKeeps
  <2>3. CASE ~ (s = t /\ rows[t] = Nobody)
    <3>1. rows'[s] = rows[s] BY <1>6, <2>3 DEF CreateRow, Shapes
    <3>2. Clearing(s)' => Clearing(s) BY <1>3, <2>1, <3>1 DEF Clearing, Broke
    <3> QED BY <1>5, <1>6, <2>1, <3>1, <3>2 DEF CreateRow, At
  <2> QED BY <2>2, <2>3
<1>7. CASE OwnSeat(p)
  <2>1. UNCHANGED <<snap, rows>> /\ lock = "free" /\ At(p, "claim") BY <1>7 DEF OwnSeat
  <2>2. ~ Clearing(s) BY <2>1, NotClearing
  <2>3. ~ Clearing(s)' BY <1>3, <2>1, <2>2 DEF Clearing, Broke
  <2>4. CASE For(p, s)
    <3>1. rows[t] = u /\ s = t BY <2>4 DEF For
    <3>2. phone'[p].pc # "end" /\ bits.there
      BY <1>7, <3>1 DEF OwnSeat
    <3>3. IF snap.occ[s] = u THEN Moved(p, "context") ELSE Moved(p, "write")
      <4>1. ~ End(p) BY <3>2, EndOf DEF Ended, Idle
      <4> QED BY <1>7, <3>1, <4>1, GotoOf, MirrorOf DEF OwnSeat, Pcs, Claiming
    <3>4. For(p, s)' BY <2>1, <2>4, <3>3 DEF Moved, For
    <3>5. Entering(s, {"claim", "write", "context"})'
          /\ Entering(s, {"claim", "write", "context", "bit"})'
      BY <3>3, <3>4 DEF Entering, Moved
    <3>6. (snap.occ[s] = rows[s])' \/ Entering(s, {"claim", "write"})'
      BY <2>1, <3>1, <3>3, <3>4 DEF Entering, Moved
    <3>7. bits'.there BY <1>3, <3>2
    <3> QED BY <2>3, <3>5, <3>6, <3>7 DEF SeatKept
  <2>5. CASE ~ For(p, s)
    <3>1. s \notin hurt BY <1>7, <2>5 DEF OwnSeat, For
    <3> QED BY <1>5, <2>1, <2>3, <2>5, <3>1
  <2> QED BY <2>4, <2>5
<1>8. CASE WriteSeat(p)
  <2>1. lock = p /\ For(p, t) BY <1>8 DEF WriteSeat, LockHeld
  <2>2. ~ Clearing(s) /\ release.pc \notin {"mirror", "write"} /\ hand = "idle"
    BY <2>1, NotClearing, HolderAssumption DEF LockHeld
  <2>3. ~ Clearing(s)' BY <1>3, <2>2 DEF Clearing
  <2>4. UNCHANGED <<rows, hurt>> BY <1>8 DEF WriteSeat
  <2>5. snap'.occ = [snap.occ EXCEPT ![t] = u] /\ snap'.bust \subseteq snap.bust
    BY <1>8 DEF WriteSeat, Shapes, SnapShape
  <2>6. CASE For(p, s)
    <3>1. s = t /\ rows[s] = u /\ snap'.occ[s] = rows'[s]
      BY <1>1, <2>4, <2>5, <2>6 DEF For, Shapes, SnapShape
    <3>2. Moved(p, "context") BY <1>8, MirrorOf DEF WriteSeat
    <3>3. Entering(s, {"claim", "write", "context"})'
          /\ Entering(s, {"claim", "write", "context", "bit"})'
      BY <2>4, <2>6, <3>2 DEF Entering, Moved, For
    <3>4. bits'.there \/ Entering(s, {"claim"})'
      <4>1. bits.there \/ Entering(s, {"claim"}) BY <2>4 DEF SeatsKept, SeatKept
      <4>2. Entering(s, {"claim"}) => Entering(s, {"claim"})'
        BY <1>2, <1>8, <2>4, OthersStay DEF WriteSeat, At
      <4> QED BY <1>3, <4>1, <4>2
    <3> QED BY <2>3, <3>1, <3>3, <3>4 DEF SeatKept
  <2>7. CASE ~ For(p, s)
    <3>1. s # t BY <2>1, <2>7
    <3>2. snap'.occ[s] = snap.occ[s] BY <2>5, <3>1 DEF Shapes, SnapShape
    <3> QED BY <1>5, <2>3, <2>4, <2>5, <2>7, <3>2
  <2> QED BY <2>6, <2>7
<1>9. CASE EntryFails(p)
  <2>1. UNCHANGED <<snap, rows>> BY <1>9 DEF EntryFails
  <2>2. s \notin hurt /\ ~ For(p, s) BY <1>9 DEF EntryFails, For
  <2>3. Clearing(s)' => Clearing(s) BY <1>3, <2>1 DEF Clearing, Broke
  <2> QED BY <1>5, <2>1, <2>2, <2>3
<1> QED BY <1>6, <1>7, <1>8, <1>9 DEF Entry

LEMMA KeptByQuiet ==
  ASSUME Shapes, EntryShape, LockHeld, SeatsKept, MirrorsOfSeats, [Next]_vars, Quiet,
         NEW s \in Seats, s \notin hurt', rows'[s] # Nobody
  PROVE  SeatKept(s)'
<1> USE DEF db, redis
<1>1. UNCHANGED <<rows, snap, release, hand>> BY QuietOf
<1>2. Clearing(s)' => Clearing(s) BY <1>1 DEF Clearing, Broke
<1>3. ~ Without({"late"}) => ~ Without({"late"})' BY KindsGrow DEF Without
\* the entries at s stay at their stage
<1>4. ASSUME s \notin hurt, UNCHANGED <<bits, context, deferred>>,
             \A q \in Phones : For(q, s) /\ phone[q].pc \in Claiming => phone'[q] = phone[q]
      PROVE  SeatKept(s)'
  <2>1. SeatKept(s) BY <1>1, <1>4 DEF SeatsKept
  <2>2. ASSUME NEW X \in Stages, Entering(s, X) PROVE Entering(s, X)'
    BY <1>1, <1>4, <2>2, OthersStay DEF Stages, Claiming
  <2> QED BY <1>1, <1>2, <1>3, <1>4, <2>1, <2>2, NothingLost
<1>5. ASSUME NEW p \in Phones,
             \/ Reads(p) \/ BumpVersion(p) \/ RevokeTokens(p)
             \/ \E u \in Users, t \in Seats : EnterSeat(p, u, t)
      PROVE  SeatKept(s)'
  <2>1. UNCHANGED <<bits, context, deferred, hurt>>
    BY <1>5, ReadsOf DEF Rest, BumpVersion, RevokeTokens, EnterSeat
  <2>2. phone[p].pc \notin Claiming
    BY <1>5, ReadsOf DEF BumpVersion, RevokeTokens, EnterSeat, At, Claiming, Connected
  <2>3. \A q \in Phones : phone[q].pc \in Claiming => phone'[q] = phone[q]
    BY <1>5, <2>2, QuietPhones DEF QuietPhone, Claiming, Connected
  <2> QED BY <1>4, <2>1, <2>3
\* a mirror goes on: the entries of the other phones stay, and so does p's own
\* before its stage is done
<1>6. ASSUME NEW p \in Phones, MirrorContext(p) PROVE SeatKept(s)'
  <2> DEFINE u == phone[p].user
             t == phone[p].seat
  <2>1. u \in Users /\ t \in Seats /\ At(p, "context")
    BY <1>6, EntryNames DEF MirrorContext, At, Claiming
  <2>2. UNCHANGED <<bits, deferred, hurt>> /\ context' = [context EXCEPT ![u] = t]
    BY <1>6 DEF MirrorContext
  <2>3. Moved(p, "bit") BY <1>6, GotoOf DEF MirrorContext, Pcs, Claiming
  <2>4. SeatKept(s) BY <1>1, <2>2 DEF SeatsKept
  <2>5. ASSUME NEW X \in Stages, X # {"claim", "write", "context"}, Entering(s, X)
        PROVE  Entering(s, X)'
    BY <1>1, <2>1, <2>3, <2>5, OthersStay DEF Stages, Moved, Becomes, At
  <2>6. (context[rows[s]] = s)' \/ ~ Without({"late"})'
        \/ ~ (u = rows[s])
    <3>1. CASE u = rows[s] /\ t # s
      <4>1. rows[t] # u BY <1>1, <2>1, <3>1 DEF EntryShape
      <4> QED BY <1>3, <2>1, <4>1 DEF MirrorsOfSeats, For, At
    <3>2. CASE u = rows[s] /\ t = s
      BY <1>1, <2>1, <2>2, <3>2 DEF Shapes
    <3> QED BY <3>1, <3>2
  <2>7. u # rows[s] => /\ context'[rows[s]] = context[rows[s]]
                       /\ Entering(s, {"claim", "write", "context"})
                            => Entering(s, {"claim", "write", "context"})'
    BY <1>1, <2>2, <2>3, OthersStay DEF Shapes, Moved, Becomes, For
  <2>8. Clearing(s)' => Entering(s, {"claim"})' BY <1>2, <2>4, <2>5 DEF SeatKept, Stages
  <2>9. (snap.occ[s] = rows[s])' \/ Entering(s, {"claim", "write"})'
    BY <1>1, <2>4, <2>5 DEF SeatKept, Stages
  <2>10. \/ (context[rows[s]] = s)' \/ ~ Without({"late"})' \/ (<<rows[s], s>> \in deferred)'
         \/ Entering(s, {"claim", "write", "context"})'
    BY <1>1, <1>3, <2>2, <2>4, <2>6, <2>7 DEF SeatKept
  <2>11. \/ (s \in bits.on)' \/ (<<rows[s], s>> \in deferred)'
         \/ Entering(s, {"claim", "write", "context", "bit"})'
    BY <1>1, <2>2, <2>4, <2>5 DEF SeatKept, Stages
  <2>12. bits'.there \/ Entering(s, {"claim"})' BY <2>2, <2>4, <2>5 DEF SeatKept, Stages
  <2> QED BY <2>8, <2>9, <2>10, <2>11, <2>12 DEF SeatKept
<1>7. ASSUME NEW p \in Phones, MirrorBit(p) PROVE SeatKept(s)'
  <2> DEFINE u == phone[p].user
             t == phone[p].seat
  <2>1. u \in Users /\ t \in Seats /\ At(p, "bit")
    BY <1>7, EntryNames DEF MirrorBit, At, Claiming
  <2>2. UNCHANGED <<context, deferred, hurt>> BY <1>7 DEF MirrorBit
  <2>3. bits'.there = bits.there /\ (s \in bits.on => s \in bits'.on)
        /\ (bits.there /\ t = s => s \in bits'.on)
    BY <1>7 DEF MirrorBit, Bits, Shapes, BitsShape
  <2>4. \A q \in Phones \ {p} : phone'[q] = phone[q]
    BY <1>7, TokenOf DEF MirrorBit, Becomes
  <2>5. SeatKept(s) BY <1>1, <2>2 DEF SeatsKept
  <2>6. ASSUME NEW X \in Stages, X # {"claim", "write", "context", "bit"}, Entering(s, X)
        PROVE  Entering(s, X)'
    BY <1>1, <2>1, <2>4, <2>6, OthersStay DEF Stages, At
  <2>7. CASE For(p, s)
    <3>1. t = s BY <2>7 DEF For
    <3>2. s \in bits'.on \/ Entering(s, {"claim"})'
      BY <2>3, <2>5, <2>6, <3>1 DEF SeatKept, Stages
    <3>3. \/ (s \in bits.on)' \/ Entering(s, {"claim", "write", "context", "bit"})'
      BY <3>2 DEF Entering
    <3> QED BY <1>1, <1>2, <1>3, <2>2, <2>3, <2>5, <2>6, <3>3 DEF SeatKept, Stages
  <2>8. CASE ~ For(p, s)
    <3>1. ASSUME NEW X \in Stages, Entering(s, X) PROVE Entering(s, X)'
      BY <1>1, <2>4, <2>8, <3>1, OthersStay DEF Stages
    <3> QED BY <1>1, <1>2, <1>3, <2>2, <2>3, <2>5, <3>1, NothingLost
  <2> QED BY <2>7, <2>8
<1>8. ASSUME NEW p \in Phones, MirrorFails(p) PROVE SeatKept(s)'
  <2> DEFINE u == phone[p].user
             t == phone[p].seat
  <2>1. phone[p].pc \in {"context", "bit"} /\ UNCHANGED <<bits, context>>
    BY <1>8 DEF MirrorFails
  <2>2. \A q \in Phones \ {p} : phone'[q] = phone[q]
    BY <1>8, TokenOf DEF MirrorFails, Becomes
  <2>3. /\ s \notin hurt /\ deferred \subseteq deferred'
        /\ For(p, s) => <<u, t>> \in deferred'
    BY <1>1, <1>8 DEF MirrorFails, For
  <2>4. SeatKept(s) BY <1>1, <2>3 DEF SeatsKept
  <2>5. CASE For(p, s)
    <3>1. (<<rows[s], s>> \in deferred)' BY <1>1, <2>3, <2>5 DEF For
    <3>2. ASSUME NEW X \in {{"claim"}, {"claim", "write"}}, Entering(s, X)
          PROVE  Entering(s, X)'
      BY <1>1, <2>1, <2>2, <3>2, OthersStay
    <3> QED BY <1>1, <1>2, <2>1, <2>4, <3>1, <3>2 DEF SeatKept
  <2>6. CASE ~ For(p, s)
    <3>1. ASSUME NEW X \in Stages, Entering(s, X) PROVE Entering(s, X)'
      BY <1>1, <2>2, <2>6, <3>1, OthersStay DEF Stages
    <3>2. <<rows[s], s>> \in deferred => <<rows[s], s>> \in deferred' BY <2>3
    <3> QED BY <1>1, <1>2, <1>3, <2>1, <2>4, <3>1, <3>2, NothingLost
  <2> QED BY <2>5, <2>6
<1>9. ASSUME NEW u \in Users, NEW t \in Seats, WhenUp(u, t) PROVE SeatKept(s)'
  <2>1. /\ <<u, t>> \in deferred /\ deferred' = deferred \ {<<u, t>>}
        /\ context' = [context EXCEPT ![u] = t] /\ UNCHANGED <<phone, hurt>>
    BY <1>9 DEF WhenUp
  <2>2. bits'.there = bits.there /\ (s \in bits.on => s \in bits'.on)
        /\ (bits.there /\ t = s => s \in bits'.on)
    BY <1>9 DEF WhenUp, Bits, Shapes, BitsShape
  <2>3. SeatKept(s) BY <1>1, <2>1 DEF SeatsKept
  <2>4. ASSUME NEW X, Entering(s, X) PROVE Entering(s, X)'
    BY <1>1, <2>1, <2>4 DEF Entering, For
  <2>5. CASE u = rows[s] /\ t = s
    <3>1. (context[rows[s]] = s)' BY <1>1, <2>1, <2>5 DEF Shapes
    <3>2. bits'.there \/ Entering(s, {"claim"})' BY <2>2, <2>3, <2>4 DEF SeatKept
    <3>3. (s \in bits.on)' \/ Entering(s, {"claim", "write", "context", "bit"})'
      BY <2>2, <2>5, <3>2 DEF Entering
    <3>4. Clearing(s)' => Entering(s, {"claim"})' BY <1>2, <2>3, <2>4 DEF SeatKept
    <3>5. (snap.occ[s] = rows[s])' \/ Entering(s, {"claim", "write"})'
      BY <1>1, <2>3, <2>4 DEF SeatKept
    <3> QED BY <3>1, <3>2, <3>3, <3>4, <3>5 DEF SeatKept
  <2>6. CASE ~ (u = rows[s] /\ t = s)
    <3>1. <<rows[s], s>> \in deferred => <<rows[s], s>> \in deferred' BY <2>1, <2>6
    <3>2. context[rows[s]] = s => context'[rows[s]] = s \/ ~ Without({"late"})'
      <4>1. CASE u # rows[s] BY <2>1, <4>1 DEF Shapes
      <4>2. CASE u = rows[s]
        <5>1. rows[t] # u BY <1>1, <2>6, <4>2 DEF EntryShape
        <5> QED BY <1>3, <2>1, <5>1 DEF MirrorsOfSeats
      <4> QED BY <4>1, <4>2
    <3> QED BY <1>1, <1>2, <1>3, <2>2, <2>3, <2>4, <3>1, <3>2, NothingLost
  <2> QED BY <2>5, <2>6
<1>10. CASE UNCHANGED vars
  BY <1>4, <1>10 DEF vars
<1> QED BY <1>5, <1>6, <1>7, <1>8, <1>9, <1>10 DEF Quiet, QuietPhone

\* A step that leaves the phones alone, and nothing but what a release or a hand
\* clears disappears.
LEMMA KeptBySweep ==
  ASSUME Shapes, [Next]_vars, NEW s \in Seats, SeatKept(s), rows'[s] = rows[s],
         \A q \in Phones : phone[q].pc \in Claiming => phone'[q] = phone[q],
         UNCHANGED deferred, bits'.there = bits.there,
         Clearing(s)' => Clearing(s) \/ Entering(s, {"claim"}),
         \/ Clearing(s)
         \/ /\ snap'.occ[s] = snap.occ[s]
            /\ context[rows[s]] = s => context'[rows[s]] = s
            /\ s \in bits.on => s \in bits'.on
  PROVE  SeatKept(s)'
<1>1. ASSUME NEW X \in Stages, Entering(s, X) PROVE Entering(s, X)'
  BY <1>1, OthersStay DEF Stages, Claiming
<1>2. ~ Without({"late"}) => ~ Without({"late"})' BY KindsGrow DEF Without
<1>3. CASE Entering(s, {"claim"})
  BY <1>1, <1>3, ClaimKeeps DEF Stages
<1>4. CASE ~ Entering(s, {"claim"})
  <2>1. ~ Clearing(s) BY <1>4 DEF SeatKept
  <2> QED BY <1>1, <1>2, <1>4, <2>1, NothingLost
<1> QED BY <1>3, <1>4

LEMMA KeptByRelease ==
  ASSUME Shapes, EntryShape, LockHeld, SeatsKept, [Next]_vars, ReleaseStep,
         NEW s \in Seats, s \notin hurt', rows'[s] # Nobody
  PROVE  SeatKept(s)'
<1> USE DEF db, redis
<1>1. \A q \in Phones : phone[q].pc \in Claiming => phone'[q] = phone[q]
  BY ClosedOf DEF ReleaseStep, ReleaseSeats, ReleaseRows, ReleaseMirror, ReleaseWrite,
                  ReleaseRevoke, ReleaseTorn, Connected, Claiming
<1>2. UNCHANGED <<deferred, hand>>
  BY DEF ReleaseStep, ReleaseSeats, ReleaseRows, ReleaseMirror, ReleaseWrite, ReleaseRevoke,
         ReleaseTorn
<1>3. CASE ReleaseRows
  <2>1. UNCHANGED <<snap, bits, context>> /\ release.pc = "tx" BY <1>3 DEF ReleaseRows
  <2>2. hand = "idle" BY <2>1, HolderAssumption DEF LockHeld
  <2>3. CASE release' = NoRelease
    <3>1. UNCHANGED <<rows, hurt>>
      BY <1>3, <2>3 DEF ReleaseRows, NoRelease, Shapes, ReleaseShape
    <3>2. ~ Clearing(s)' BY <1>2, <2>2, <2>3 DEF Clearing, NoRelease
    <3>3. SeatKept(s) BY <3>1 DEF SeatsKept
    <3> QED BY <1>1, <1>2, <2>1, <3>1, <3>2, <3>3, KeptBySweep
  <2>4. CASE release' # NoRelease
    <3>1. /\ \A t \in release.seats : rows[t] = snap.occ[t]
          /\ rows' = [t \in Seats |-> IF t \in release.seats THEN Nobody ELSE rows[t]]
          /\ release' = [release EXCEPT !.pc = "mirror"] /\ hurt' = hurt \ release.seats
      BY <1>3, <2>4 DEF ReleaseRows
    <3>2. s \notin release.seats /\ rows'[s] = rows[s] /\ s \notin hurt BY <3>1
    <3>3. SeatKept(s) BY <3>2 DEF SeatsKept
    <3>4. release.users = {snap.occ[t] : t \in release.seats} /\ release.seats \subseteq Seats
      BY <2>1 DEF LockHeld, Shapes, ReleaseShape
    <3>5. rows[s] \notin release.users BY <3>1, <3>2, <3>4 DEF EntryShape
    <3>6. release'.seats = release.seats /\ release'.users = release.users
      BY <3>1 DEF Shapes, ReleaseShape
    <3>7. ~ Clearing(s)' BY <1>2, <2>2, <3>2, <3>5, <3>6 DEF Clearing
    <3> QED BY <1>1, <1>2, <2>1, <3>2, <3>3, <3>7, KeptBySweep
  <2> QED BY <2>3, <2>4
<1>4. CASE ReleaseMirror
  <2>1. /\ UNCHANGED <<snap, rows, hurt>> /\ release.pc = "mirror" /\ release'.pc = "write"
        /\ release'.seats = release.seats /\ release'.users = release.users
    BY <1>4 DEF ReleaseMirror, Shapes, ReleaseShape
  <2>2. SeatKept(s) BY <2>1 DEF SeatsKept
  <2>3. Clearing(s)' => Clearing(s) BY <1>2, <2>1 DEF Clearing, Broke
  <2>4. /\ bits'.there = bits.there
        /\ s \notin release.seats => (s \in bits.on => s \in bits'.on)
    BY <1>4 DEF ReleaseMirror, Bits, Shapes, BitsShape
  <2>5. rows[s] \notin release.users => context'[rows[s]] = context[rows[s]]
    BY <1>4, <2>1 DEF ReleaseMirror, Shapes, User
  <2>6. ~ Clearing(s) => s \notin release.seats /\ rows[s] \notin release.users
    BY <2>1 DEF Clearing
  <2> QED BY <1>1, <1>2, <2>1, <2>2, <2>3, <2>4, <2>5, <2>6, KeptBySweep
<1>5. CASE ReleaseWrite
  <2>1. /\ UNCHANGED <<rows, hurt, bits, context>> /\ release.pc = "write"
        /\ release'.pc = "revoke" /\ hand = "idle"
    BY <1>5, HolderAssumption DEF ReleaseWrite, Shapes, ReleaseShape, LockHeld
  <2>2. SeatKept(s) BY <2>1 DEF SeatsKept
  <2>3. ~ Clearing(s)' BY <1>2, <2>1 DEF Clearing
  <2>4. s \notin release.seats => snap'.occ[s] = snap.occ[s]
    BY <1>5 DEF ReleaseWrite, Shapes, SnapShape
  <2>5. s \in release.seats => Clearing(s) BY <2>1 DEF Clearing
  <2> QED BY <1>1, <1>2, <2>1, <2>2, <2>3, <2>4, <2>5, KeptBySweep
<1>6. CASE \/ \E S \in SUBSET Seats \ {{}} : ReleaseSeats(S)
           \/ ReleaseRevoke \/ ReleaseTorn
  <2>1. UNCHANGED <<rows, hurt, bits, context, snap>> /\ release'.pc \in {"tx", "idle"}
    BY <1>6 DEF ReleaseSeats, ReleaseRevoke, ReleaseTorn, NoRelease
  <2>2. SeatKept(s) BY <2>1 DEF SeatsKept
  <2>3. Clearing(s)' => Clearing(s) BY <1>2, <2>1 DEF Clearing, Broke
  <2> QED BY <1>1, <1>2, <2>1, <2>2, <2>3, KeptBySweep
<1> QED BY <1>3, <1>4, <1>5, <1>6 DEF ReleaseStep

LEMMA KeptByHand ==
  ASSUME Shapes, EntryShape, LockHeld, SeatsKept, [Next]_vars, HandStep,
         NEW s \in Seats, s \notin hurt', rows'[s] # Nobody
  PROVE  SeatKept(s)'
<1> USE DEF db, redis, calls
<1>1. UNCHANGED <<phone, deferred, release>>
  BY DEF HandStep, StartPreFlop, ResolveWinners, Eliminate, FinishHand, EliminatePlayer,
         EliminateDone, FinishMirror, InitTable
<1>2. CASE StartPreFlop \/ \E B \in SUBSET Seats : ResolveWinners(B)
  <2>1. /\ UNCHANGED <<rows, bits, context, hurt, hand>> /\ lock = "free"
        /\ snap'.occ[s] = snap.occ[s]
    BY <1>2 DEF StartPreFlop, ResolveWinners, Shapes, SnapShape
  <2>2. SeatKept(s) BY <2>1 DEF SeatsKept
  <2>3. hand = "idle" /\ release.pc \notin {"mirror", "write"}
    BY <2>1, HolderAssumption DEF LockHeld
  <2>4. ~ Clearing(s)' BY <1>1, <2>1, <2>3 DEF Clearing
  <2> QED BY <1>1, <2>1, <2>2, <2>4, KeptBySweep
<1>3. CASE Eliminate \/ FinishHand
  <2>1. /\ UNCHANGED <<snap, bits, context>> /\ lock = "free"
        /\ rows' = [t \in Seats |-> IF rows[t] \in Broke THEN Nobody ELSE rows[t]]
        /\ hurt' = {t \in hurt : rows[t] \notin Broke}
    BY <1>3 DEF Eliminate, FinishHand, EliminatePlayer
  <2>2. rows[s] \notin Broke /\ rows'[s] = rows[s] /\ s \notin hurt BY <2>1
  <2>3. SeatKept(s) BY <2>2 DEF SeatsKept
  <2>4. release.pc \notin {"mirror", "write"} /\ \A q \in Phones : ~ At(q, "write")
    BY <2>1, HolderAssumption DEF LockHeld
  <2>5. Clearing(s)' => Entering(s, {"claim"})
    <3>1. Clearing(s)' => s \in snap.bust BY <1>1, <2>1, <2>2, <2>4 DEF Clearing, Broke
    <3>2. s \in snap.bust => snap.occ[s] # rows[s] BY <2>2 DEF Broke
    <3>3. Entering(s, {"claim", "write"}) => Entering(s, {"claim"})
      BY <2>4 DEF Entering, At
    <3> QED BY <2>3, <3>1, <3>2, <3>3 DEF SeatKept
  <2> QED BY <1>1, <2>1, <2>2, <2>3, <2>5, KeptBySweep
<1>4. CASE EliminateDone \/ FinishMirror
  <2>1. /\ UNCHANGED <<snap, rows, hurt>> /\ EliminateMirror /\ hand # "idle"
    BY <1>4 DEF EliminateDone, FinishMirror
  <2>2. SeatKept(s) BY <2>1 DEF SeatsKept
  <2>3. Clearing(s)' => Clearing(s)
    BY <1>1, <2>1 DEF Clearing, Broke
  <2>4. /\ bits'.there = bits.there
        /\ s \notin snap.bust => (s \in bits.on => s \in bits'.on)
    BY <2>1 DEF EliminateMirror, Bits, Shapes, BitsShape
  <2>5. rows[s] \notin Broke => context'[rows[s]] = context[rows[s]]
    BY <2>1 DEF EliminateMirror, Shapes, User
  <2>6. ~ Clearing(s) => s \notin snap.bust /\ rows[s] \notin Broke
    BY <2>1 DEF Clearing
  <2> QED BY <1>1, <2>1, <2>2, <2>3, <2>4, <2>5, <2>6, KeptBySweep
<1>5. CASE InitTable
  <2>1. /\ UNCHANGED <<rows, hurt, bits, context>> /\ hand = "write" /\ hand' = "idle"
        /\ snap'.occ = [t \in Seats |-> IF t \in snap.bust THEN Nobody ELSE snap.occ[t]]
    BY <1>5 DEF InitTable, Shapes, SnapShape
  <2>2. SeatKept(s) BY <2>1 DEF SeatsKept
  <2>3. release.pc \notin {"mirror", "write"} BY <2>1 DEF LockHeld
  <2>4. ~ Clearing(s)' BY <1>1, <2>1, <2>3 DEF Clearing
  <2>5. ~ Clearing(s) => snap'.occ[s] = snap.occ[s] BY <2>1 DEF Clearing
  <2> QED BY <1>1, <2>1, <2>2, <2>4, <2>5, KeptBySweep
<1> QED BY <1>2, <1>3, <1>4, <1>5 DEF HandStep

LEMMA SeatsStay ==
  ASSUME Shapes, EntryShape, LockHeld, SeatsKept, MirrorsOfSeats, [Next]_vars
  PROVE  SeatsKept'
<1> SUFFICES ASSUME NEW s \in Seats, s \notin hurt', rows'[s] # Nobody
             PROVE  SeatKept(s)'
  BY DEF SeatsKept
<1>1. CASE LoseRedis
  BY <1>1 DEF LoseRedis, Taken, db
<1>2. CASE Restart
  BY <1>2, BootOf DEF Restart, Taken, Keep
<1> QED BY <1>1, <1>2, KeptByQuiet, KeptByEntry, KeptByRelease, KeptByHand, Steps

-----------------------------------------------------------------------------
(* The invariant, and what follows from it.                                 *)

\* Init is one of its states ...
LEMMA InvStarts == Init => IInv
<1> SUFFICES ASSUME Init PROVE IInv
  OBVIOUS
<1>1. TypeOK /\ EntryShape BY Started, ShapesAreTypes
<1>2. \A p \in Phones : phone[p].pc = "idle" BY DEF Init, Idle
<1>3. LockHeld /\ OldSockets /\ MirrorsOfSeats
  BY <1>2 DEF Init, LockHeld, OldSockets, MirrorsOfSeats, At, NoRelease
<1>4. RowsPlay
  <2>1. \A s \in Seats : rows[s] # Nobody => rows[s] \in Users /\ SeatOf(rows[s], rows) # {}
    BY DEF Init, User, SeatOf
  <2> QED BY <2>1 DEF Init, RowsPlay
<1>5. OccupantsOwn BY EmptyShaped DEF Init, OccupantsOwn, SnapShape
<1>6. SeatsKept
  <2> SUFFICES ASSUME NEW s \in Seats, rows[s] # Nobody PROVE SeatKept(s)
    BY DEF SeatsKept
  <2>1. ~ Clearing(s) BY DEF Init, Clearing, NoRelease
  <2>2. snap.occ[s] = rows[s] BY EmptyShaped DEF Init, SnapShape
  <2>3. s \in bits.on /\ bits.there BY DEF Init, Taken
  <2>4. context[rows[s]] = s
    <3>1. rows[s] \in Users /\ SeatOf(rows[s], rows) # {} BY DEF Init, User, SeatOf
    <3>2. context[rows[s]] = CHOOSE t \in Seats : rows[t] = rows[s] BY <3>1 DEF Init
    <3>3. \A t \in Seats : rows[t] = rows[s] => t = s BY DEF Init
    <3> QED BY <3>2, <3>3
  <2> QED BY <2>1, <2>2, <2>3, <2>4 DEF SeatKept
<1> QED BY <1>1, <1>3, <1>4, <1>5, <1>6 DEF IInv

\* ... and every step keeps it.
LEMMA InvStays == IInv /\ [Next]_vars => IInv'
<1> SUFFICES ASSUME IInv, [Next]_vars PROVE IInv'
  OBVIOUS
<1>1. Shapes /\ EntryShape /\ LockHeld /\ OldSockets /\ RowsPlay /\ OccupantsOwn /\ SeatsKept
      /\ MirrorsOfSeats
  BY ShapesAreTypes DEF IInv
<1>2. Shapes' /\ EntryShape' BY <1>1, Typed
<1>3. TypeOK'
  BY <1>2 DEF TypeOK, Shapes, PhoneShape, SnapShape, BitsShape, ReleaseShape, FaultShape
<1>4. LockHeld' /\ OldSockets' /\ RowsPlay' BY <1>1, LockStays, OldSocketsStay, RowsPlayStay
<1>5. OccupantsOwn' /\ SeatsKept' /\ MirrorsOfSeats'
  BY <1>1, OccupantsStay, SeatsStay, MirrorsStay
<1> QED BY <1>2, <1>3, <1>4, <1>5 DEF IInv

\* The inductive invariant: who is in the lock, whose row, occupant, bit and
\* context is where, and which sockets are about to be closed.
THEOREM SeatInvariance == Spec => []IInv
<1>1. IInv /\ [Next]_vars => IInv' BY InvStays
<1> QED BY <1>1, InvStarts, PTL DEF Spec

\* A seat of the database is shown by snapshot, bit and context, once its entry is
\* through (claimSeat, releaseSeats and eliminatePlayer against each other).
THEOREM SeatsAreShown == Spec => []SeatedIsShown
<1>1. ASSUME IInv PROVE SeatedIsShown
  <2> SUFFICES ASSUME NEW s \in Seats \ hurt, rows[s] # Nobody,
                      <<rows[s], s>> \notin deferred,
                      ~ \E p \in Phones : phone[p].user = rows[s] /\ phone[p].pc \in Claiming
               PROVE  Shown(s)
    BY DEF SeatedIsShown
  <2>1. SeatKept(s) BY <1>1 DEF IInv, SeatsKept
  <2>2. \A X \in Stages : ~ Entering(s, X) BY DEF Stages, Entering, For, Claiming
  <2> QED BY <2>1, <2>2 DEF SeatKept, Shown, Stages
<1> QED BY <1>1, SeatInvariance, PTL

\* A phone with an older token has no socket, but for the moment before it is
\* closed (closeIfStale against the bump of the version).
THEOREM LastEntryWins == Spec => []OneDevice
<1>1. IInv => OneDevice BY DEF IInv, OldSockets, OneDevice, ClosingUnderWay
<1> QED BY <1>1, SeatInvariance, PTL

\* Nobody is taken off a seat that is his (the row read again in claimSeat's lock;
\* releases and eliminations that clear in theirs).
THEOREM OwnersStay == Spec => OwnerKept
<1> DEFINE Lost(s) == /\ snap.there /\ snap'.there /\ snap.occ[s] # Nobody
                      /\ rows[s] = snap.occ[s] /\ snap'.occ[s] # snap.occ[s]
           Entered(s) == \/ s \in hurt
                         \/ \E p \in Phones : At(p, "claim") /\ phone[p].user = snap.occ[s]
<1>1. ASSUME IInv, [Next]_vars, NEW s \in Seats, Lost(s) PROVE Entered(s)
  <2>1. Shapes /\ EntryShape /\ LockHeld /\ SeatsKept BY <1>1, ShapesAreTypes DEF IInv
  <2>2. ASSUME Clearing(s) PROVE Entered(s)
    <3> SUFFICES ASSUME s \notin hurt
                 PROVE  \E p \in Phones : At(p, "claim") /\ phone[p].user = snap.occ[s]
      OBVIOUS
    <3>1. SeatKept(s) BY <1>1, <2>1 DEF SeatsKept
    <3>2. Entering(s, {"claim"}) BY <2>2, <3>1 DEF SeatKept
    <3> QED BY <1>1, <3>2 DEF Entering, For, At
  <2>3. CASE Quiet BY <1>1, <2>1, <2>3, QuietOf
  <2>4. ASSUME NEW p \in Phones, Entry(p) PROVE Entered(s)
    <3>1. CASE WriteSeat(p)
      <4>1. phone[p].seat \in Seats /\ rows[phone[p].seat] = phone[p].user
        BY <2>1, <3>1, EntryNames DEF WriteSeat, At, Claiming, LockHeld, For
      <4>2. snap'.occ = [snap.occ EXCEPT ![phone[p].seat] = phone[p].user]
        BY <2>1, <3>1 DEF WriteSeat, Shapes, SnapShape
      <4> QED BY <1>1, <2>1, <4>1, <4>2 DEF Shapes, SnapShape
    <3>2. CASE ~ WriteSeat(p)
      BY <1>1, <2>4, <3>2 DEF Entry, CreateRow, OwnSeat, EntryFails, redis
    <3> QED BY <3>1, <3>2
  <2>5. CASE ReleaseWrite
    <3>1. s \in release.seats /\ release.pc = "write"
      BY <1>1, <2>1, <2>5 DEF ReleaseWrite, Shapes, SnapShape
    <3> QED BY <2>2, <3>1 DEF Clearing
  <2>6. CASE ReleaseStep /\ ~ ReleaseWrite
    BY <1>1, <2>6 DEF ReleaseStep, ReleaseSeats, ReleaseRows, ReleaseMirror, ReleaseRevoke,
                      ReleaseTorn, redis
  <2>7. CASE InitTable
    <3>1. s \in snap.bust /\ hand = "write"
      BY <1>1, <2>1, <2>7 DEF InitTable, Shapes, SnapShape
    <3> QED BY <2>2, <3>1 DEF Clearing
  <2>8. CASE HandStep /\ ~ InitTable
    <3>1. snap'.occ = snap.occ
      BY <2>1, <2>8 DEF HandStep, StartPreFlop, ResolveWinners, Eliminate, FinishHand,
                        EliminatePlayer, EliminateDone, FinishMirror, redis, Shapes, SnapShape
    <3> QED BY <1>1, <3>1
  <2>9. CASE LoseRedis BY <1>1, <2>9 DEF LoseRedis, NoSnapshot
  <2>10. CASE Restart
    <3>1. snap' = snap BY <1>1, <2>1, <2>10, BootOf DEF Restart
    <3> QED BY <1>1, <3>1
  <2> QED BY <1>1, <2>3, <2>4, <2>5, <2>6, <2>7, <2>8, <2>9, <2>10, Steps
<1>2. IInv /\ [Next]_vars =>
        [\A s \in Seats :
           LET u == snap.occ[s]
           IN  snap.there /\ snap'.there /\ u # Nobody /\ rows[s] = u /\ snap'.occ[s] # u
               => s \in hurt \/ \E p \in Phones : At(p, "claim") /\ phone[p].user = u]_vars
  BY <1>1
<1> QED BY <1>2, SeatInvariance, PTL DEF Spec, OwnerKept

\* Cards go only to people whose row is at the seat, but for a torn release and
\* the race of an entry with an elimination (releaseSeats, initTable).
THEOREM DealtOwnSeats == Spec => DealtHaveSeats
<1> DEFINE Dealt == Without({"torn"}) /\ snap.phase = "WAITING" /\ snap'.phase = "BETTING"
           Seated(s) == snap.occ[s] # Nobody =>
                          \/ rows[s] = snap.occ[s]
                          \/ status[snap.occ[s]] = "eliminated" /\ ~ Without({"raced"})
<1>1. ASSUME IInv, [Next]_vars, Dealt, NEW s \in Seats PROVE Seated(s)
  <2>1. Shapes /\ EntryShape /\ LockHeld /\ OccupantsOwn BY <1>1, ShapesAreTypes DEF IInv
  <2>2. CASE StartPreFlop
    <3>1. release.pc \notin {"mirror", "write"}
      BY <2>1, <2>2, HolderAssumption DEF StartPreFlop, LockHeld
    <3>2. snap.bust = {} BY <1>1, <2>1 DEF EntryShape
    <3> QED BY <1>1, <2>1, <3>1, <3>2 DEF OccupantsOwn
  <2>3. CASE ~ StartPreFlop
    <3>1. snap'.phase \in {snap.phase, "HAND_END", "WAITING"}
      <4>1. CASE Quiet BY <2>1, <4>1, QuietOf
      <4>2. ASSUME NEW p \in Phones, Entry(p) PROVE snap'.phase = snap.phase
        BY <2>1, <4>2 DEF Entry, CreateRow, OwnSeat, WriteSeat, EntryFails, redis, Shapes, SnapShape
      <4>3. CASE ReleaseStep
        BY <2>1, <4>3 DEF ReleaseStep, ReleaseSeats, ReleaseRows, ReleaseMirror, ReleaseWrite,
                          ReleaseRevoke, ReleaseTorn, redis, Shapes, SnapShape
      <4>4. CASE HandStep
        BY <2>1, <2>3, <4>4 DEF HandStep, ResolveWinners, Eliminate, FinishHand, EliminatePlayer,
                                EliminateDone, FinishMirror, InitTable, redis, Shapes, SnapShape
      <4>5. CASE LoseRedis BY <4>5 DEF LoseRedis, NoSnapshot
      <4>6. CASE Restart
        BY <2>1, <4>6, BootOf, EmptyShaped DEF Restart, EmptyTable, NoSnapshot, SnapShape
      <4> QED BY <1>1, <4>1, <4>2, <4>3, <4>4, <4>5, <4>6, Steps
    <3> QED BY <1>1, <3>1
  <2> QED BY <2>2, <2>3
<1>2. IInv /\ [Next]_vars => [Dealt => \A s \in Seats : Seated(s)]_vars
  BY <1>1
<1> QED BY <1>2, SeatInvariance, PTL DEF Spec, DealtHaveSeats
=============================================================================
