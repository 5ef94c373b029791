-------------------------- MODULE SeatTabletProofs --------------------------
(* What a seat's tablet shows and what its player can do with it, for any    *)
(* number of rounds, frames, attempts and faults.                            *)
(*                                                                           *)
(* The page, the wire and the table are kept by three programs that hear of  *)
(* each other only by frames, so the invariant TabletInv says what the page  *)
(* will show once it has read the frames on their way (ComesTo, Clears), not *)
(* what it shows.  Its part Reached is what CanAnswer needs: a question that *)
(* is waited for is on its way, on the page, or answered.  It is kept        *)
(* through a reconnection because the gateway greets with the table first    *)
(* and the remembered question behind it (ViewFits, AskFits: the marker that *)
(* the page checks the question against is the one of the round), and        *)
(* through the loss of Redis because the frame of its return is behind the   *)
(* frame of the loss (OutageTold).                                           *)
(*                                                                           *)
(* PageFitsSeat is about money: no page turns a player away who has paid.    *)
(* It needs PaidInv next to TabletInv, which holds as long as nothing is in  *)
(* slips.  That no question and answer have crossed is used once in each     *)
(* direction (OneAnswerKept): a question that joins an answer on its way is  *)
(* in slips by PromptCrosses, and so is an answer that joins a question.     *)
EXTENDS SeatTablet, TLAPS, SequenceTheorems

-----------------------------------------------------------------------------
(* Queues.                                                                   *)

\* Frame i is the last of its kind in q.
LastOf(q, k, i) ==
  i \in 1 .. Len(q) /\ q[i].kind = k /\ (\A j \in (i + 1) .. Len(q) : q[j].kind # k)

\* No frame of q is of the kind k.
Lacks(q, k) == \A i \in 1 .. Len(q) : q[i].kind # k

\* A page that shows v comes to show one of S when it has read q.
ComesTo(q, v, S) ==
  /\ \A i \in 1 .. Len(q) : LastOf(q, "render", i) => q[i].view \in S
  /\ Lacks(q, "render") => v \in S

\* A page whose banner is b has none when it has read q.
Clears(q, b) ==
  /\ \A i \in 1 .. Len(q) : LastOf(q, "outage", i) => ~ q[i].isDown
  /\ Lacks(q, "outage") => ~ b

\* No frame of q shows him without his chair.
Seats(q) == \A i \in 1 .. Len(q) : q[i].kind = "render" => q[i].view.chair # "empty"

\* A frame at the end of the queue.
LEMMA AtTheEnd ==
  ASSUME NEW q \in Seq(Frames), NEW f \in Frames
  PROVE  /\ q \o <<f>> \in Seq(Frames)
         /\ Len(q \o <<f>>) = Len(q) + 1
         /\ \A i \in 1 .. Len(q) : (q \o <<f>>)[i] = q[i]
         /\ (q \o <<f>>)[Len(q) + 1] = f
OBVIOUS

\* The frames behind the first.
LEMMA BehindTheFirst ==
  ASSUME NEW q \in Seq(Frames), q # <<>>
  PROVE  /\ Tail(q) \in Seq(Frames)
         /\ Len(q) = Len(Tail(q)) + 1 /\ Len(Tail(q)) \in Nat
         /\ Head(q) = q[1] /\ Head(q) \in Frames
         /\ \A i \in 1 .. Len(Tail(q)) : Tail(q)[i] = q[i + 1]
OBVIOUS

\* What a frame at the end changes.
LEMMA LacksMore ==
  ASSUME NEW q \in Seq(Frames), NEW f \in Frames, NEW k
  PROVE  Lacks(q \o <<f>>, k) <=> (Lacks(q, k) /\ f.kind # k)
<1> DEFINE r == q \o <<f>>
<1>1. /\ Len(r) = Len(q) + 1 /\ Len(q) \in Nat
      /\ \A i \in 1 .. Len(q) : r[i] = q[i]
      /\ r[Len(q) + 1] = f
  BY AtTheEnd
<1> HIDE DEF r
<1>2. Lacks(r, k) <=> (Lacks(q, k) /\ f.kind # k)
  BY <1>1 DEF Lacks
<1> QED
  BY <1>2 DEF r

\* A frame at the end that shows him his chair keeps it on the screen.
LEMMA SeatsMore ==
  ASSUME NEW q \in Seq(Frames), NEW f \in Frames
  PROVE  Seats(q \o <<f>>) <=> (Seats(q) /\ (f.kind = "render" => f.view.chair # "empty"))
<1> DEFINE r == q \o <<f>>
<1>1. /\ Len(r) = Len(q) + 1 /\ Len(q) \in Nat
      /\ \A i \in 1 .. Len(q) : r[i] = q[i]
      /\ r[Len(q) + 1] = f
  BY AtTheEnd
<1> HIDE DEF r
<1>2. Seats(r) <=> (Seats(q) /\ (f.kind = "render" => f.view.chair # "empty"))
  BY <1>1 DEF Seats
<1> QED
  BY <1>2 DEF r

\* The frame at the end is the last of its kind.
LEMMA LastMore ==
  ASSUME NEW q \in Seq(Frames), NEW f \in Frames, NEW k
  PROVE  /\ \A i \in 1 .. Len(q) :
              LastOf(q \o <<f>>, k, i) <=> (LastOf(q, k, i) /\ f.kind # k)
         /\ LastOf(q \o <<f>>, k, Len(q) + 1) <=> f.kind = k
<1> DEFINE r == q \o <<f>>
<1>1. /\ Len(r) = Len(q) + 1 /\ Len(q) \in Nat
      /\ \A i \in 1 .. Len(q) : r[i] = q[i]
      /\ r[Len(q) + 1] = f
  BY AtTheEnd
<1> HIDE DEF r
<1>2. \A i \in 1 .. Len(q) : LastOf(r, k, i) <=> (LastOf(q, k, i) /\ f.kind # k)
  BY <1>1 DEF LastOf
<1>3. LastOf(r, k, Len(q) + 1) <=> f.kind = k
  BY <1>1 DEF LastOf
<1> QED
  BY <1>2, <1>3 DEF r

\* What the page comes to show is in the snapshot sent last.
LEMMA ComesToMore ==
  ASSUME NEW q \in Seq(Frames), NEW f \in Frames, NEW v, NEW S,
         IF f.kind = "render" THEN f.view \in S ELSE ComesTo(q, v, S)
  PROVE  ComesTo(q \o <<f>>, v, S)
<1> DEFINE r == q \o <<f>>
<1>1. /\ Len(r) = Len(q) + 1 /\ Len(q) \in Nat
      /\ \A i \in 1 .. Len(q) : r[i] = q[i]
      /\ r[Len(q) + 1] = f
  BY AtTheEnd
<1>2. /\ \A i \in 1 .. Len(q) : LastOf(r, "render", i) <=> (LastOf(q, "render", i) /\ f.kind # "render")
      /\ LastOf(r, "render", Len(q) + 1) <=> f.kind = "render"
      /\ Lacks(r, "render") <=> (Lacks(q, "render") /\ f.kind # "render")
  BY LastMore, LacksMore
<1> HIDE DEF r
<1>3. ComesTo(r, v, S)
  BY <1>1, <1>2 DEF ComesTo
<1> QED
  BY <1>3 DEF r

\* The banner is what the outage frame sent last makes it.
LEMMA ClearsMore ==
  ASSUME NEW q \in Seq(Frames), NEW f \in Frames, NEW b,
         IF f.kind = "outage" THEN ~ f.isDown ELSE Clears(q, b)
  PROVE  Clears(q \o <<f>>, b)
<1> DEFINE r == q \o <<f>>
<1>1. /\ Len(r) = Len(q) + 1 /\ Len(q) \in Nat
      /\ \A i \in 1 .. Len(q) : r[i] = q[i]
      /\ r[Len(q) + 1] = f
  BY AtTheEnd
<1>2. /\ \A i \in 1 .. Len(q) : LastOf(r, "outage", i) <=> (LastOf(q, "outage", i) /\ f.kind # "outage")
      /\ LastOf(r, "outage", Len(q) + 1) <=> f.kind = "outage"
      /\ Lacks(r, "outage") <=> (Lacks(q, "outage") /\ f.kind # "outage")
  BY LastMore, LacksMore
<1> HIDE DEF r
<1>3. Clears(r, b)
  BY <1>1, <1>2 DEF Clears
<1> QED
  BY <1>3 DEF r

\* What reading the first frame changes.
LEMMA LacksLess ==
  ASSUME NEW q \in Seq(Frames), q # <<>>, NEW k
  PROVE  Lacks(q, k) <=> (Lacks(Tail(q), k) /\ Head(q).kind # k)
<1> DEFINE r == Tail(q)
<1>1. /\ Len(q) = Len(r) + 1 /\ Len(r) \in Nat /\ Head(q) = q[1]
      /\ \A i \in 1 .. Len(r) : r[i] = q[i + 1]
  BY BehindTheFirst
<1> HIDE DEF r
<1>2. ASSUME Lacks(q, k) PROVE Lacks(r, k) /\ Head(q).kind # k
  BY <1>1, <1>2 DEF Lacks
<1>3. ASSUME Lacks(r, k), Head(q).kind # k PROVE Lacks(q, k)
  <2> SUFFICES ASSUME NEW i \in 1 .. Len(q) PROVE q[i].kind # k
    BY DEF Lacks
  <2>1. CASE i = 1
    BY <2>1, <1>1, <1>3
  <2>2. CASE i # 1
    <3>1. i - 1 \in 1 .. Len(r) /\ (i - 1) + 1 = i
      BY <2>2, <1>1
    <3> QED
      BY <3>1, <1>1, <1>3 DEF Lacks
  <2> QED
    BY <2>1, <2>2
<1> QED
  BY <1>2, <1>3 DEF r

\* Reading a frame leaves the others to show him his chair.
LEMMA SeatsLess ==
  ASSUME NEW q \in Seq(Frames), q # <<>>, Seats(q)
  PROVE  Seats(Tail(q)) /\ (Head(q).kind = "render" => Head(q).view.chair # "empty")
<1> DEFINE r == Tail(q)
<1>1. /\ Len(q) = Len(r) + 1 /\ Len(r) \in Nat /\ Head(q) = q[1]
      /\ \A i \in 1 .. Len(r) : r[i] = q[i + 1]
  BY BehindTheFirst
<1> HIDE DEF r
<1>2. Seats(r) /\ (Head(q).kind = "render" => Head(q).view.chair # "empty")
  BY <1>1 DEF Seats
<1> QED
  BY <1>2 DEF r

\* The last of a kind stays the last when the first frame has been read.
LEMMA LastLess ==
  ASSUME NEW q \in Seq(Frames), q # <<>>, NEW k
  PROVE  /\ \A i \in 1 .. Len(Tail(q)) : LastOf(Tail(q), k, i) => LastOf(q, k, i + 1)
         /\ (Lacks(Tail(q), k) /\ Head(q).kind = k) => LastOf(q, k, 1)
<1> DEFINE r == Tail(q)
<1>1. /\ Len(q) = Len(r) + 1 /\ Len(r) \in Nat /\ Head(q) = q[1]
      /\ \A i \in 1 .. Len(r) : r[i] = q[i + 1]
  BY BehindTheFirst
<1> HIDE DEF r
<1>2. ASSUME NEW i \in 1 .. Len(r), LastOf(r, k, i) PROVE LastOf(q, k, i + 1)
  <2>1. i + 1 \in 1 .. Len(q) /\ q[i + 1].kind = k
    BY <1>1, <1>2 DEF LastOf
  <2>2. ASSUME NEW j \in ((i + 1) + 1) .. Len(q) PROVE q[j].kind # k
    <3>1. j - 1 \in (i + 1) .. Len(r) /\ (j - 1) + 1 = j /\ j - 1 \in 1 .. Len(r)
      BY <1>1
    <3> QED
      BY <3>1, <1>1, <1>2 DEF LastOf
  <2> QED
    BY <2>1, <2>2 DEF LastOf
<1>3. ASSUME Lacks(r, k), Head(q).kind = k PROVE LastOf(q, k, 1)
  <2>1. 1 \in 1 .. Len(q) /\ q[1].kind = k
    BY <1>1, <1>3
  <2>2. ASSUME NEW j \in (1 + 1) .. Len(q) PROVE q[j].kind # k
    <3>1. j - 1 \in 1 .. Len(r) /\ (j - 1) + 1 = j
      BY <1>1
    <3> QED
      BY <3>1, <1>1, <1>3 DEF Lacks
  <2> QED
    BY <2>1, <2>2 DEF LastOf
<1> QED
  BY <1>2, <1>3 DEF r

\* Reading a frame does not change what the page comes to show.
LEMMA ComesToLess ==
  ASSUME NEW q \in Seq(Frames), q # <<>>, NEW v, NEW w, NEW S, ComesTo(q, v, S),
         w = IF Head(q).kind = "render" THEN Head(q).view ELSE v
  PROVE  ComesTo(Tail(q), w, S)
<1> DEFINE r == Tail(q)
<1>1. /\ Len(q) = Len(r) + 1 /\ Len(r) \in Nat /\ Head(q) = q[1]
      /\ \A i \in 1 .. Len(r) : r[i] = q[i + 1]
  BY BehindTheFirst
<1>2. /\ \A i \in 1 .. Len(r) : LastOf(r, "render", i) => LastOf(q, "render", i + 1)
      /\ (Lacks(r, "render") /\ Head(q).kind = "render") => LastOf(q, "render", 1)
      /\ Lacks(q, "render") <=> (Lacks(r, "render") /\ Head(q).kind # "render")
  BY LastLess, LacksLess
<1> HIDE DEF r
<1>3. \A i \in 1 .. Len(r) : LastOf(r, "render", i) => r[i].view \in S
  BY <1>1, <1>2 DEF ComesTo
<1>4. Lacks(r, "render") => w \in S
  BY <1>1, <1>2 DEF ComesTo
<1>5. ComesTo(r, w, S)
  BY <1>3, <1>4 DEF ComesTo
<1> QED
  BY <1>5 DEF r

\* Nor whether its banner goes.
LEMMA ClearsLess ==
  ASSUME NEW q \in Seq(Frames), q # <<>>, NEW b, NEW c, Clears(q, b),
         c => IF Head(q).kind = "outage" THEN Head(q).isDown ELSE b
  PROVE  Clears(Tail(q), c)
<1> DEFINE r == Tail(q)
<1>1. /\ Len(q) = Len(r) + 1 /\ Len(r) \in Nat /\ Head(q) = q[1]
      /\ \A i \in 1 .. Len(r) : r[i] = q[i + 1]
  BY BehindTheFirst
<1>2. /\ \A i \in 1 .. Len(r) : LastOf(r, "outage", i) => LastOf(q, "outage", i + 1)
      /\ (Lacks(r, "outage") /\ Head(q).kind = "outage") => LastOf(q, "outage", 1)
      /\ Lacks(q, "outage") <=> (Lacks(r, "outage") /\ Head(q).kind # "outage")
  BY LastLess, LacksLess
<1> HIDE DEF r
<1>3. \A i \in 1 .. Len(r) : LastOf(r, "outage", i) => ~ r[i].isDown
  BY <1>1, <1>2 DEF Clears
<1>4. Lacks(r, "outage") => ~ c
  BY <1>1, <1>2 DEF Clears
<1>5. Clears(r, c)
  BY <1>3, <1>4 DEF Clears
<1> QED
  BY <1>5 DEF r

\* An empty queue.
LEMMA NothingOnItsWay ==
  ASSUME NEW v, NEW S, NEW b, NEW k
  PROVE  /\ Lacks(<<>>, k) /\ Seats(<<>>)
         /\ ComesTo(<<>>, v, S) <=> v \in S
         /\ Clears(<<>>, b) <=> ~ b
BY DEF Lacks, Seats, ComesTo, Clears, LastOf

-----------------------------------------------------------------------------
(* The invariant.                                                            *)

\* Types, and what keeps the numbers within their bounds.
Shapes ==
  /\ TypeOK
  /\ redis.gen <= faults
  /\ ask.pc = "opening" => round < MaxRounds

\* The page holds a socket while the wire is there; a wire that is not in the
\* room and not closing carries nothing.
WireFits ==
  /\ (wire = "none") <=> ~ Connected
  /\ wire \in {"none", "knocking", "cut"} => down = <<>> /\ up = <<>>
  /\ wire = "knocking" => hook.sock = "joining"

\* While he has his seat nothing on its way, and nothing on the page, says that
\* he has lost it.
SeatShown ==
  table.seated =>
    /\ Seats(down) /\ Lacks(down, "closed")
    /\ page.view.chair # "empty" /\ page.exit # "seat-released" /\ ~ page.closed

\* The marker is the round's from the opening of the round to its end.
Marked == ask.pc \in {"reading", "waiting", "late", "accepted"} => table.marker = round /\ round # 0

\* A command that runs has a player; a command that waits has Redis, and is
\* remembered with the question.
AskFits ==
  /\ ask.pc # "playing" => table.seated
  /\ Marked
  /\ ask.pc = "waiting" => redis.up /\ prompt = [round |-> round, gen |-> redis.gen]

\* The views with the marker and the banner of the table.
Fitting(t) == {v \in Views : v.marked = View(t).marked /\ v.resume = View(t).resume}

\* A page that is greeted comes to show the marker and the banner of the table.
ViewFits == wire = "greeted" => ComesTo(down, page.view, Fitting(table))

\* The banner of an outage that a page in the room shows goes when Redis is there.
Banner == page.outage /\ hook.sock = "open"
OutageTold == InRoom /\ redis.up => Clears(down, Banner)

\* A question that is waited for is on its way, on the page, or answered.
Reached ==
  ask.pc = "waiting" /\ wire = "greeted"
    => ~ Lacks(down, "prompt") \/ up # <<>> \/ (page.asks /\ page.exit = "none")

TabletInv ==
  Shapes /\ WireFits /\ SeatShown /\ AskFits /\ ViewFits /\ OutageTold /\ Reached

-----------------------------------------------------------------------------
(* Types.                                                                    *)

\* Tables, and the frames that the server makes of them.
Tables == [seated : BOOLEAN, chips : BOOLEAN, marker : Rounds, resume : BOOLEAN]

\* The two frames about an outage.
Gone == [kind |-> "outage", isDown |-> TRUE]
Back == [kind |-> "outage", isDown |-> FALSE]

\* All of them are frames.
LEMMA FramesSent ==
  ASSUME NEW t \in Tables
  PROVE  /\ View(t) \in Views /\ Render(t) \in Frames
         /\ Prompt \in Frames
         /\ Gone \in Frames /\ Back \in Frames
         /\ Close(1000) \in Frames /\ Close(1008) \in Frames /\ Close(4001) \in Frames
         /\ [kind |-> "keepalive"] \in Frames /\ [kind |-> "closed"] \in Frames
<1>1. View(t) \in Views
  BY DEF Tables, View, Views
<1> QED
  BY <1>1 DEF Frames, Render, Prompt, Close, Gone, Back

\* One frame or two to a socket in the room.
LEMMA SendsOne ==
  ASSUME down \in Seq(Frames), NEW f \in Frames, Send(<<f>>)
  PROVE  down' \in Seq(Frames) /\ down' = IF InRoom THEN down \o <<f>> ELSE down
BY DEF Send

\* Two frames to a socket in the room: both are sent, or neither.
LEMMA SendsTwo ==
  ASSUME down \in Seq(Frames), NEW f \in Frames, NEW g \in Frames, Send(<<f, g>>)
  PROVE  /\ down' \in Seq(Frames)
         /\ down' = IF InRoom THEN (down \o <<f>>) \o <<g>> ELSE down
<1>0. <<f>> \in Seq(Frames) /\ <<g>> \in Seq(Frames) /\ <<f, g>> \in Seq(Frames)
  OBVIOUS
<1>. DEFINE c == <<f>> \o <<g>>
<1>3. c \in Seq(Frames) /\ Len(c) = 2 /\ c[1] = f /\ c[2] = g
  BY <1>0
<1>4. Len(<<f, g>>) = 2 /\ <<f, g>>[1] = f /\ <<f, g>>[2] = g
  OBVIOUS
<1>5. \A i \in 1 .. 2 : c[i] = <<f, g>>[i]
  BY <1>3, <1>4
<1>6. <<f, g>> = c
  <2> HIDE DEF c
  <2> QED
    BY <1>0, <1>3, <1>4, <1>5, SeqEqual
<1>1. down \o <<f, g>> = (down \o <<f>>) \o <<g>>
  BY <1>0, <1>6, ConcatAssociative
<1>2. down \o <<f, g>> \in Seq(Frames)
  OBVIOUS
<1> QED
  BY <1>1, <1>2 DEF Send

\* Close frames do not ask whether the socket is in the room.
LEMMA SendsClose ==
  ASSUME down \in Seq(Frames), NEW code \in {1000, 1008, 4001}, Refuse(code)
  PROVE  down' \in Seq(Frames)
BY DEF Refuse, Frames, Close

\* The greeting: the table, and behind it the outage, the open question, or nothing.
Behind == IF ~ redis.up THEN <<OutageIs(TRUE)>> ELSE IF table.seated THEN Resent ELSE <<>>

Greeted == /\ current /\ wire = "room" /\ wire' = "greeted"
           /\ down' = down \o <<Render(table)>> \o Behind
           /\ UNCHANGED <<server, up, hook, page, faults>> /\ Crosses

Refused == /\ wire = "room" /\ (Refuse(4001) \/ Refuse(1008))
           /\ UNCHANGED <<server, up, hook, page>> /\ (Fault \/ UNCHANGED faults)

\* handleConnection turns the socket away, or greets it.
LEMMA GreetCases == Greet => Refused \/ (Greeted /\ Greet)
<1> DEFINE Old == Refuse(4001) /\ ~ current /\ UNCHANGED faults
           Failing == Refuse(1008) /\ IF redis.up THEN Fault ELSE UNCHANGED faults
           Good == /\ current /\ UNCHANGED faults
                   /\ down' = down \o <<Render(table)>> \o Behind
                   /\ wire' = "greeted"
<1> DEFINE Same == wire = "room" /\ UNCHANGED <<server, up, hook, page>> /\ Crosses
<1>1. Greet => Same
  BY DEF Greet
<1>2. Greet => Old \/ Failing \/ Good
  BY DEF Greet, Behind
<1>3. Same /\ Old => Refused
  BY DEF Refused
<1>4. Same /\ Failing => Refused
  BY DEF Refused
<1>5. Same /\ Good => Greeted
  BY DEF Greeted
<1> HIDE DEF Old, Failing, Good, Same
<1> QED
  BY <1>1, <1>2, <1>3, <1>4, <1>5

\* What is behind the table.
LEMMA BehindCases ==
  /\ Behind = <<>> \/ Behind = <<Gone>> \/ Behind = <<Prompt>>
  /\ redis.up => Behind # <<Gone>>
  /\ ~ redis.up => Behind = <<Gone>>
  /\ Behind = <<Prompt>> => table.marker # 0 /\ prompt.round >= table.marker
  /\ redis.up /\ table.seated /\ table.marker # 0 /\ prompt.round >= table.marker
     /\ prompt.gen = redis.gen => Behind = <<Prompt>>
BY DEF Behind, Resent, OutageIs, Gone, Prompt

\* What an action does to the queue of frames, and that frames remain.
LEMMA DownTyped ==
  ASSUME TypeOK, Next, table' \in Tables
  PROVE  down' \in Seq(Frames)
<1>9. down \in Seq(Frames) /\ table \in Tables
  BY DEF TypeOK, Tables
<1>10. <<>> \in Seq(Frames)
  OBVIOUS
<1> USE <1>9 DEF server
<1>0. /\ Render(table) \in Frames /\ Render(table') \in Frames /\ Prompt \in Frames
      /\ Gone \in Frames /\ Back \in Frames
      /\ [kind |-> "keepalive"] \in Frames /\ [kind |-> "closed"] \in Frames
      /\ Close(1000) \in Frames /\ Close(1008) \in Frames /\ Close(4001) \in Frames
  BY FramesSent
<1>1. ASSUME NEW f \in Frames, Send(<<f>>) PROVE down' \in Seq(Frames)
  BY <1>1, SendsOne
<1>2. ASSUME NEW f \in Frames, NEW g \in Frames, Send(<<f, g>>) PROVE down' \in Seq(Frames)
  BY <1>2, SendsTwo
<1>3. ASSUME NEW c \in {1000, 1008, 4001}, Refuse(c) PROVE down' \in Seq(Frames)
  BY <1>3, SendsClose
<1>4. CASE Hand
  <2>1. CASE UNCHANGED down
    BY <2>1
  <2>2. CASE Broadcast
    BY <2>2, <1>0, <1>1 DEF Broadcast
  <2>3. CASE Send(<<Prompt>>)
    BY <2>3, <1>0, <1>1
  <2>4. CASE Send(<<[kind |-> "closed"], Close(1000)>>)
    BY <2>4, <1>0, <1>2
  <2> QED
    BY <1>4, <2>1, <2>2, <2>3, <2>4
       DEF Hand, LoseChips, OpenRound, AskHim, Deadline, NoAnswer, Rebuy, CloseRound, Hold,
           Resume, Wake, Unmark, FinishHand, TournamentClosed
<1>5. CASE Gateway
  <2>1. CASE Keepalive
    BY <2>1, <1>0, <1>1 DEF Keepalive
  <2>2. CASE Admit
    BY <2>2, <1>3 DEF Admit
  <2>3. CASE Greet
    <3>1. CASE Refused
      BY <3>1, <1>3 DEF Refused
    <3>2. CASE Greeted
      <4>1. Behind \in Seq(Frames)
        <5>1. <<Gone>> \in Seq(Frames) /\ <<Prompt>> \in Seq(Frames)
          BY <1>0
        <5> QED
          BY <5>1, <1>10, BehindCases
      <4>2. down \o <<Render(table)>> \o Behind \in Seq(Frames)
        BY <4>1, <1>0
      <4> QED
        BY <3>2, <4>2 DEF Greeted
    <3> QED
      BY <2>3, <3>1, <3>2, GreetCases
  <2>4. CASE HandleRebuyResponse
    BY <2>4 DEF HandleRebuyResponse
  <2> QED
    BY <1>5, <2>1, <2>2, <2>3, <2>4 DEF Gateway
<1>6. CASE Tablet
  <2>1. CASE Receive
    BY <2>1 DEF Receive
  <2>2. CASE Closed \/ Leave
    BY <2>2, <1>10 DEF Closed, Leave
  <2>3. CASE Connect \/ Timer \/ Silence
    BY <2>3 DEF Connect, Timer, Silence
  <2> QED
    BY <1>6, <2>1, <2>2, <2>3 DEF Tablet
<1>7. CASE People
  BY <1>7, <1>10 DEF People, RetryNow, Reload, Press
<1>8. CASE Faulty
  <2>1. CASE RedisDown
    <3>1. Send(<<Gone>>)
      BY <2>1 DEF RedisDown, OutageIs, Gone
    <3> QED
      BY <3>1, <1>0, <1>1
  <2>2. CASE RedisBack
    <3>1. Send(<<Back, Render(table)>>)
      BY <2>2 DEF RedisBack, OutageIs, Back
    <3> QED
      BY <3>1, <1>0, <1>2
  <2>3. CASE CommandFails
    BY <2>3, <1>0, <1>1 DEF CommandFails, Broadcast
  <2>4. CASE Revoke
    BY <2>4, <1>0 DEF Revoke
  <2>5. CASE Cut \/ Restart
    BY <2>5, <1>10 DEF Cut, Restart
  <2>6. CASE TicketFails
    BY <2>6 DEF TicketFails
  <2> QED
    BY <1>8, <2>1, <2>2, <2>3, <2>4, <2>5, <2>6 DEF Faulty
<1> QED
  BY <1>4, <1>5, <1>6, <1>7, <1>8 DEF Next

\* The table keeps its type.
LEMMA TableTyped ==
  ASSUME Shapes, Next
  PROVE  table' \in Tables /\ round' \in Rounds
<1> USE DEF Shapes, TypeOK, Tables, server, Rounds
<1>0. 0 \in Rounds
  BY BoundsAssumption
<1>1. CASE Hand
  <2>1. CASE OpenRound
    <3>1. CASE ~ redis.up
      BY <2>1, <3>1 DEF OpenRound
    <3>2. CASE redis.up
      <4>1. round' = round + 1 /\ round' \in Rounds
        BY <2>1, <3>2, BoundsAssumption DEF OpenRound
      <4>2. table' = [table EXCEPT !.marker = round']
        BY <2>1, <3>2 DEF OpenRound
      <4> QED
        BY <4>1, <4>2
    <3> QED
      BY <3>1, <3>2
  <2>2. CASE LoseChips \/ AskHim \/ Deadline \/ NoAnswer \/ CloseRound \/ Wake
    BY <2>2 DEF LoseChips, AskHim, Deadline, NoAnswer, CloseRound, Wake
  <2>3. CASE Rebuy \/ Resume
    BY <2>3 DEF Rebuy, Resume
  <2>4. CASE Hold \/ Unmark \/ FinishHand
    BY <1>0, <2>4 DEF Hold, Unmark, FinishHand
  <2>5. CASE TournamentClosed
    BY <1>0, <2>5 DEF TournamentClosed
  <2> QED
    BY <1>1, <2>1, <2>2, <2>3, <2>4, <2>5 DEF Hand
<1>2. CASE Gateway
  BY <1>2 DEF Gateway, Keepalive, Admit, Greet, HandleRebuyResponse
<1>3. CASE Tablet
  BY <1>3 DEF Tablet, Connect, Timer, Silence, Closed, Receive, Leave
<1>4. CASE People
  BY <1>4 DEF People, RetryNow, Reload, Press
<1>5. CASE Faulty
  BY <1>0, <1>5 DEF Faulty, TicketFails, CommandFails, RedisDown, RedisBack, Cut, Restart, Revoke
<1> QED
  BY <1>1, <1>2, <1>3, <1>4, <1>5 DEF Next

\* A frame by its kind.
LEMMA FrameKinds ==
  ASSUME NEW f \in Frames
  PROVE  /\ f.kind \in {"render", "prompt", "keepalive", "closed", "outage", "close"}
         /\ f.kind = "render" => f.view \in Views
         /\ f.kind = "outage" => f.isDown \in BOOLEAN
BY DEF Frames

Pages == [view : Views, asks : BOOLEAN, saw : BOOLEAN, outage : BOOLEAN, closed : BOOLEAN,
          exit : {"none", "eliminated", "seat-released"}]

Hooks == [sock : {"ticket", "joining", "open", "retry", "gaveUp", "revoked", "over", "dead", "left"},
          attempt : 0 .. MaxAttempts + 1]

\* Planning the next attempt.
LEMMA RetryTyped ==
  ASSUME hook \in Hooks, ScheduleRetry
  PROVE  hook' \in Hooks
BY BoundsAssumption DEF Hooks, ScheduleRetry

\* The page keeps its type.
LEMMA PageTyped ==
  ASSUME TypeOK, Next, table' \in Tables
  PROVE  page' \in Pages
<1>0. page \in Pages /\ down \in Seq(Frames) /\ table \in Tables
  BY DEF TypeOK, Pages, Tables
<1> USE <1>0
<1>1. CASE Receive
  <2>1. Head(down) \in Frames
    BY <1>1, BehindTheFirst DEF Receive
  <2>2. Head(down).kind = "render" => Head(down).view \in Views
    BY <2>1, FrameKinds
  <2>3. Head(down).kind = "outage" => Head(down).isDown \in BOOLEAN
    BY <2>1, FrameKinds
  <2> DEFINE p == IF hook.sock = "joining" THEN [page EXCEPT !.outage = FALSE] ELSE page
  <2>4. p \in Pages
    BY DEF Pages
  <2>5. page' = CASE Frame.kind = "render" -> Shown(p, Frame.view)
                  [] Frame.kind = "prompt" -> Asked(p)
                  [] Frame.kind = "outage" -> [p EXCEPT !.outage = Frame.isDown]
                  [] Frame.kind = "closed" -> [p EXCEPT !.closed = TRUE]
                  [] OTHER                 -> p
    BY <1>1 DEF Receive
  <2> HIDE DEF p
  <2>6. CASE Frame.kind = "render"
    BY <2>2, <2>4, <2>5, <2>6 DEF Frame, Shown, Pages
  <2>7. CASE Frame.kind = "prompt"
    BY <2>4, <2>5, <2>7 DEF Asked, Pages
  <2>8. CASE Frame.kind \notin {"render", "prompt"}
    BY <2>3, <2>4, <2>5, <2>8 DEF Frame, Pages
  <2> QED
    BY <2>6, <2>7, <2>8
<1>2. CASE Reload
  BY <1>2, FramesSent DEF Reload, Fresh, Pages
<1>3. CASE \E answer \in {"accept", "decline"} : Press(answer)
  BY <1>3 DEF Press, Pages
<1>4. CASE UNCHANGED page
  BY <1>4
<1> QED
  BY <1>1, <1>2, <1>3, <1>4
     DEF Next, Hand, LoseChips, OpenRound, AskHim, Deadline, NoAnswer, Rebuy, CloseRound, Hold,
         Resume, Wake, Unmark, FinishHand, TournamentClosed, Gateway, Keepalive, Admit, Greet,
         HandleRebuyResponse, Tablet, Connect, Timer, Silence, Closed, Leave, People, RetryNow,
         Faulty, TicketFails, CommandFails, RedisDown, RedisBack, Cut, Restart, Revoke

\* So does the hook, and the answers on their way.
LEMMA HookTyped ==
  ASSUME TypeOK, Next
  PROVE  hook' \in Hooks /\ up' \in Seq({"accept", "decline"})
<1>0. hook \in Hooks /\ up \in Seq({"accept", "decline"})
  BY DEF TypeOK, Hooks
<1>1. \A s \in {"ticket", "joining", "open", "retry", "gaveUp", "revoked", "over", "dead", "left"} :
        To(s) => hook' \in Hooks
  BY <1>0 DEF To, Hooks
<1>2. ScheduleRetry => hook' \in Hooks
  BY <1>0, RetryTyped
<1>3. {0, 1} \subseteq 0 .. MaxAttempts + 1
  BY BoundsAssumption
<1>4. <<>> \in Seq({"accept", "decline"})
  OBVIOUS
<1>5. CASE Hand
  BY <1>0, <1>5 DEF Hand, LoseChips, OpenRound, AskHim, Deadline, NoAnswer, Rebuy, CloseRound,
     Hold, Resume, Wake, Unmark, FinishHand, TournamentClosed
<1>6. CASE Gateway
  <2>1. CASE HandleRebuyResponse
    BY <1>0, <2>1 DEF HandleRebuyResponse
  <2> QED
    BY <1>0, <1>6, <2>1 DEF Gateway, Keepalive, Admit, Greet
<1>7. CASE Tablet
  <2>1. CASE Closed
    BY <1>0, <1>1, <1>2, <1>4, <2>1 DEF Closed
  <2>2. CASE Receive
    BY <1>0, <1>3, <2>2 DEF Receive, Hooks
  <2>3. CASE Connect \/ Timer \/ Silence \/ Leave
    BY <1>0, <1>1, <1>2, <2>3 DEF Connect, Timer, Silence, Leave
  <2> QED
    BY <1>7, <2>1, <2>2, <2>3 DEF Tablet
<1>8. CASE People
  <2>1. CASE RetryNow \/ Reload
    BY <1>0, <1>1, <1>3, <2>1 DEF RetryNow, Reload, Hooks
  <2>2. ASSUME NEW answer \in {"accept", "decline"}, Press(answer)
        PROVE  hook' \in Hooks /\ up' \in Seq({"accept", "decline"})
    BY <1>0, <2>2 DEF Press
  <2> QED
    BY <1>8, <2>1, <2>2 DEF People
<1>9. CASE Faulty
  BY <1>0, <1>1, <1>2, <1>4, <1>9
     DEF Faulty, TicketFails, CommandFails, RedisDown, RedisBack, Cut, Restart, Revoke
<1> QED
  BY <1>5, <1>6, <1>7, <1>8, <1>9 DEF Next

Asks == [pc : {"playing", "opening", "reading", "waiting", "late", "accepted", "settled",
               "holding", "held", "woken", "unmark", "closing"},
         again : BOOLEAN, gen : 0 .. MaxFaults]

Wires == {"none", "knocking", "room", "greeted", "closing", "cut"}

\* The command; a round that opens is within the bound.
LEMMA AskTyped ==
  ASSUME Shapes, Next
  PROVE  ask' \in Asks /\ (ask'.pc = "opening" => round' < MaxRounds)
<1>0. /\ ask \in Asks /\ redis.gen \in 0 .. MaxFaults /\ Playing \in Asks
      /\ Playing.pc = "playing"
      /\ ask.pc = "opening" => round < MaxRounds
  BY BoundsAssumption DEF Shapes, TypeOK, Asks, Playing
<1>1. CASE Hand
  <2>1. CASE LoseChips
    BY <1>0, <2>1 DEF LoseChips, Settle, Asks
  <2>2. CASE OpenRound
    BY <1>0, <2>2 DEF OpenRound, Settle, Asks
  <2>3. CASE AskHim
    BY <1>0, <2>3 DEF AskHim, Settle, Asks
  <2>4. CASE Deadline
    BY <1>0, <2>4 DEF Deadline, Settle, Asks
  <2>5. CASE NoAnswer
    BY <1>0, <2>5 DEF NoAnswer, Settle, Asks
  <2>6. CASE Rebuy
    BY <1>0, <2>6 DEF Rebuy, Settle, Asks
  <2>7. CASE CloseRound
    BY <1>0, <2>7 DEF CloseRound, Settle, Asks
  <2>8. CASE Hold
    BY <1>0, <2>8 DEF Hold, Settle, Asks
  <2>9. CASE Resume
    BY <1>0, <2>9 DEF Resume, Settle, Asks
  <2>10. CASE Wake
    BY <1>0, <2>10 DEF Wake, Settle, Asks
  <2>11. CASE Unmark
    BY <1>0, <2>11 DEF Unmark, Settle, Asks
  <2>12. CASE FinishHand
    BY <1>0, <2>12 DEF FinishHand, Settle, Asks
  <2>13. CASE TournamentClosed
    BY <1>0, <2>13 DEF TournamentClosed, Settle, Asks
  <2> QED
    BY <1>1, <2>1, <2>2, <2>3, <2>4, <2>5, <2>6, <2>7, <2>8, <2>9, <2>10, <2>11, <2>12, <2>13 DEF Hand
<1>2. CASE Gateway
  <2>1. CASE Keepalive
    BY <1>0, <2>1 DEF Keepalive, server, Asks
  <2>2. CASE Admit
    BY <1>0, <2>2 DEF Admit, server, Asks
  <2>3. CASE Greet
    BY <1>0, <2>3 DEF Greet, server, Asks
  <2>4. CASE HandleRebuyResponse
    BY <1>0, <2>4 DEF HandleRebuyResponse, server, Asks
  <2> QED
    BY <1>2, <2>1, <2>2, <2>3, <2>4 DEF Gateway
<1>3. CASE Tablet
  BY <1>0, <1>3 DEF Tablet, Connect, Timer, Silence, Closed, Receive, Leave, server
<1>4. CASE People
  BY <1>0, <1>4 DEF People, RetryNow, Reload, Press, server
<1>5. CASE Faulty
  <2>1. CASE TicketFails
    BY <1>0, <2>1 DEF TicketFails, server, Settle, Asks
  <2>2. CASE CommandFails
    BY <1>0, <2>2 DEF CommandFails, server, Settle, Asks
  <2>3. CASE RedisDown
    BY <1>0, <2>3 DEF RedisDown, OutageIs, server, Settle, Asks
  <2>4. CASE RedisBack
    BY <1>0, <2>4 DEF RedisBack, OutageIs, server, Settle, Asks
  <2>5. CASE Cut
    BY <1>0, <2>5 DEF Cut, server, Settle, Asks
  <2>6. CASE Restart
    BY <1>0, <2>6 DEF Restart, server, Settle, Asks
  <2>7. CASE Revoke
    BY <1>0, <2>7 DEF Revoke, server, Settle, Asks
  <2> QED
    BY <1>5, <2>1, <2>2, <2>3, <2>4, <2>5, <2>6, <2>7 DEF Faulty
<1> QED
  BY <1>1, <1>2, <1>3, <1>4, <1>5 DEF Next

\* And the rest, with its bounds.
LEMMA RestTyped ==
  ASSUME Shapes, Next
  PROVE  /\ redis' \in [up : BOOLEAN, gen : 0 .. MaxFaults]
         /\ faults' \in 0 .. MaxFaults /\ redis'.gen <= faults'
         /\ prompt' \in [round : Rounds, gen : 0 .. MaxFaults]
         /\ current' \in BOOLEAN /\ wire' \in Wires
<1>0. /\ redis \in [up : BOOLEAN, gen : 0 .. MaxFaults]
      /\ prompt \in [round : Rounds, gen : 0 .. MaxFaults]
      /\ current \in BOOLEAN /\ wire \in Wires /\ faults \in 0 .. MaxFaults
      /\ round \in Rounds /\ redis.gen <= faults
      /\ None \in [round : Rounds, gen : 0 .. MaxFaults]
      /\ MaxFaults \in Nat
  BY BoundsAssumption DEF Shapes, TypeOK, Wires, None, Rounds
<1>1. Fault => faults' \in 0 .. MaxFaults /\ faults < faults' /\ faults' = faults + 1
  BY <1>0 DEF Fault
<1>2. CASE Hand
  <2>1. CASE LoseChips
    BY <1>0, <1>1, <2>1 DEF LoseChips, Wires
  <2>2. CASE OpenRound
    BY <1>0, <1>1, <2>2 DEF OpenRound, Wires
  <2>3. CASE AskHim
    BY <1>0, <1>1, <2>3 DEF AskHim, Wires
  <2>4. CASE Deadline
    BY <1>0, <1>1, <2>4 DEF Deadline, Wires
  <2>5. CASE NoAnswer
    <3>1. (Fault \/ UNCHANGED faults) /\ UNCHANGED <<redis, prompt, current, wire>>
      BY <2>5 DEF NoAnswer
    <3> QED
      BY <1>0, <1>1, <3>1
  <2>6. CASE Rebuy
    <3>1. (Fault \/ UNCHANGED faults) /\ UNCHANGED <<redis, prompt, current, wire>>
      BY <2>6 DEF Rebuy
    <3> QED
      BY <1>0, <1>1, <3>1
  <2>7. CASE CloseRound
    BY <1>0, <1>1, <2>7 DEF CloseRound, Wires
  <2>8. CASE Hold
    BY <1>0, <1>1, <2>8 DEF Hold, Wires
  <2>9. CASE Resume
    BY <1>0, <1>1, <2>9 DEF Resume, Wires
  <2>10. CASE Wake
    BY <1>0, <1>1, <2>10 DEF Wake, Wires
  <2>11. CASE Unmark
    BY <1>0, <1>1, <2>11 DEF Unmark, Wires
  <2>12. CASE FinishHand
    BY <1>0, <1>1, <2>12 DEF FinishHand, Wires
  <2>13. CASE TournamentClosed
    BY <1>0, <1>1, <2>13 DEF TournamentClosed, Wires
  <2> QED
    BY <1>2, <2>1, <2>2, <2>3, <2>4, <2>5, <2>6, <2>7, <2>8, <2>9, <2>10, <2>11, <2>12, <2>13 DEF Hand
<1>3. CASE Gateway
  <2>1. CASE Keepalive
    BY <1>0, <1>1, <2>1 DEF Keepalive, server, Refuse, Wires
  <2>2. CASE Admit
    BY <1>0, <1>1, <2>2 DEF Admit, server, Refuse, Wires
  <2>3. CASE Greet
    <3>1. UNCHANGED <<redis, prompt, current>>
      BY <2>3 DEF Greet, server
    <3>2. wire' \in Wires /\ (UNCHANGED faults \/ Fault)
      BY <2>3, GreetCases DEF Refused, Greeted, Refuse, Wires
    <3> QED
      BY <1>0, <1>1, <3>1, <3>2
  <2>4. CASE HandleRebuyResponse
    BY <1>0, <1>1, <2>4 DEF HandleRebuyResponse, server, Refuse, Wires
  <2> QED
    BY <1>3, <2>1, <2>2, <2>3, <2>4 DEF Gateway
<1>4. CASE Tablet
  BY <1>0, <1>4 DEF Tablet, Connect, Timer, Silence, Closed, Receive, Leave, server, Wires
<1>5. CASE People
  BY <1>0, <1>5 DEF People, RetryNow, Reload, Press, server, Wires
<1>6. CASE Faulty
  <2>1. CASE TicketFails
    BY <1>0, <1>1, <2>1 DEF TicketFails, server, Torn, Wires
  <2>2. CASE CommandFails
    BY <1>0, <1>1, <2>2 DEF CommandFails, server, Torn, Wires
  <2>3. CASE RedisDown
    BY <1>0, <1>1, <2>3 DEF RedisDown, OutageIs, server, Torn, Wires
  <2>4. CASE RedisBack
    BY <1>0, <1>1, <2>4 DEF RedisBack, OutageIs, server, Torn, Wires
  <2>5. CASE Cut
    BY <1>0, <1>1, <2>5 DEF Cut, server, Torn, Wires
  <2>6. CASE Restart
    BY <1>0, <1>1, <2>6 DEF Restart, server, Torn, Wires
  <2>7. CASE Revoke
    <3>1. UNCHANGED <<redis, prompt>> /\ Fault /\ current' \in BOOLEAN
      BY <2>7 DEF Revoke
    <3>2. wire' \in Wires
      BY <2>7, <1>0 DEF Revoke, Wires
    <3> QED
      BY <1>0, <1>1, <3>1, <3>2
  <2> QED
    BY <1>6, <2>1, <2>2, <2>3, <2>4, <2>5, <2>6, <2>7 DEF Faulty
<1> QED
  BY <1>2, <1>3, <1>4, <1>5, <1>6 DEF Next

\* What has slipped is remembered.
LEMMA SlipsStay ==
  ASSUME Next
  PROVE  slips' \in {slips, slips \union {"crossed"}, slips \union {"rebuilt"}}
<1>1. Crosses => slips' \in {slips, slips \union {"crossed"}, slips \union {"rebuilt"}}
  BY DEF Crosses
<1>2. AskHim \/ Greet \/ (\E answer \in {"accept", "decline"} : Press(answer)) => Crosses
  BY DEF AskHim, Greet, Press
<1>3. CASE Hand /\ ~ AskHim
  BY <1>3 DEF Hand, LoseChips, OpenRound, Deadline, NoAnswer, Rebuy, CloseRound, Hold, Resume,
     Wake, Unmark, FinishHand, TournamentClosed
<1>4. CASE Gateway /\ ~ Greet
  BY <1>4 DEF Gateway, Keepalive, Admit, HandleRebuyResponse
<1>5. CASE Tablet \/ RetryNow \/ Reload
  BY <1>5 DEF Tablet, Connect, Timer, Silence, Closed, Receive, Leave, RetryNow, Reload
<1>6. CASE Faulty
  BY <1>6 DEF Faulty, TicketFails, CommandFails, RedisDown, RedisBack, Cut, Restart, Revoke
<1> QED
  BY <1>1, <1>2, <1>3, <1>4, <1>5, <1>6 DEF Next, Hand, Gateway, People

\* Together.
LEMMA ShapesKept ==
  ASSUME Shapes, Next
  PROVE  Shapes'
<1>1. TypeOK
  BY DEF Shapes
<1>2. table' \in Tables /\ round' \in Rounds
  BY TableTyped
<1>3. down' \in Seq(Frames) /\ page' \in Pages
  BY <1>1, <1>2, DownTyped, PageTyped
<1>4. hook' \in Hooks /\ up' \in Seq({"accept", "decline"})
  BY <1>1, HookTyped
<1>5. ask' \in Asks /\ (ask'.pc = "opening" => round' < MaxRounds)
  BY AskTyped
<1>6. slips' \subseteq {"crossed", "rebuilt"}
  BY <1>1, SlipsStay DEF TypeOK
<1> QED
  BY <1>2, <1>3, <1>4, <1>5, <1>6, RestTyped DEF Shapes, TypeOK, Tables, Pages, Hooks, Asks, Wires

-----------------------------------------------------------------------------
(* The parts of the invariant, step by step.                                 *)

\* A connection that is not in the room is sent nothing.
LEMMA SentInRoom ==
  ASSUME NEW frames, Send(frames), ~ InRoom
  PROVE  down' = down
BY DEF Send

\* The page and the wire.
LEMMA WireKept ==
  ASSUME Shapes, WireFits, Next
  PROVE  WireFits'
<1>0. hook \in Hooks /\ wire \in Wires
  BY DEF Shapes, TypeOK, Hooks, Wires
<1>1. CASE Hand
  <2>1. (~ InRoom => down' = down) /\ UNCHANGED <<up, hook>>
        /\ (wire' = wire \/ (InRoom /\ wire' = "closing"))
    <3> USE DEF Broadcast
    <3>1. CASE LoseChips
      BY SentInRoom, <3>1 DEF LoseChips
    <3>2. CASE OpenRound
      BY SentInRoom, <3>2 DEF OpenRound
    <3>3. CASE AskHim
      BY SentInRoom, <3>3 DEF AskHim
    <3>4. CASE Deadline
      BY SentInRoom, <3>4 DEF Deadline
    <3>5. CASE NoAnswer
      BY SentInRoom, <3>5 DEF NoAnswer
    <3>6. CASE Rebuy
      BY SentInRoom, <3>6 DEF Rebuy
    <3>7. CASE CloseRound
      BY SentInRoom, <3>7 DEF CloseRound
    <3>8. CASE Hold
      BY SentInRoom, <3>8 DEF Hold
    <3>9. CASE Resume
      BY SentInRoom, <3>9 DEF Resume
    <3>10. CASE Wake
      BY SentInRoom, <3>10 DEF Wake
    <3>11. CASE Unmark
      BY SentInRoom, <3>11 DEF Unmark
    <3>12. CASE FinishHand
      BY SentInRoom, <3>12 DEF FinishHand
    <3>13. CASE TournamentClosed
      BY SentInRoom, <3>13 DEF TournamentClosed
    <3> QED
      BY <1>1, <3>1, <3>2, <3>3, <3>4, <3>5, <3>6, <3>7, <3>8, <3>9, <3>10, <3>11, <3>12, <3>13 DEF Hand
  <2> QED
    BY <1>0, <2>1 DEF WireFits, InRoom, Connected
<1>2. CASE Gateway
  <2>1. CASE Keepalive
    BY <1>0, <2>1, SentInRoom DEF Keepalive, WireFits, InRoom, Connected
  <2>2. CASE Admit
    BY <1>0, <2>2 DEF Admit, WireFits, Refuse, Connected
  <2>3. CASE Greet
    BY <1>0, <2>3, GreetCases DEF Refused, Greeted, Refuse, WireFits, Connected
  <2>4. CASE HandleRebuyResponse
    BY <1>0, <2>4 DEF HandleRebuyResponse, WireFits, InRoom, Connected
  <2> QED
    BY <1>2, <2>1, <2>2, <2>3, <2>4 DEF Gateway
<1>3. CASE Tablet
  <2> USE DEF WireFits, Connected, Wires, Hooks, ScheduleRetry, To
  <2>1. CASE Connect
    BY <1>0, <2>1 DEF Connect
  <2>2. CASE Timer
    BY <1>0, <2>2 DEF Timer
  <2>3. CASE Silence
    BY <1>0, <2>3 DEF Silence
  <2>4. CASE Closed
    BY <1>0, <2>4 DEF Closed
  <2>5. CASE Receive
    BY <1>0, <2>5 DEF Receive
  <2>6. CASE Leave
    BY <1>0, <2>6 DEF Leave
  <2> QED
    BY <1>3, <2>1, <2>2, <2>3, <2>4, <2>5, <2>6 DEF Tablet
<1>4. CASE People
  <2>1. CASE RetryNow \/ Reload
    BY <1>0, <2>1 DEF RetryNow, Reload, WireFits, Connected, To, Hooks
  <2>2. ASSUME NEW answer \in {"accept", "decline"}, Press(answer) PROVE WireFits'
    BY <1>0, <2>2 DEF Press, WireFits, Connected, InRoom
  <2> QED
    BY <1>4, <2>1, <2>2 DEF People
<1>5. CASE Faulty
  <2> USE DEF WireFits, Connected, Wires, Hooks, ScheduleRetry, To, InRoom, Broadcast, Torn
  <2>1. CASE TicketFails
    BY <1>0, SentInRoom, <2>1 DEF TicketFails
  <2>2. CASE CommandFails
    BY <1>0, SentInRoom, <2>2 DEF CommandFails
  <2>3. CASE RedisDown
    BY <1>0, SentInRoom, <2>3 DEF RedisDown, OutageIs
  <2>4. CASE RedisBack
    BY <1>0, SentInRoom, <2>4 DEF RedisBack, OutageIs
  <2>5. CASE Cut
    BY <1>0, SentInRoom, <2>5 DEF Cut
  <2>6. CASE Restart
    BY <1>0, SentInRoom, <2>6 DEF Restart
  <2>7. CASE Revoke
    BY <1>0, SentInRoom, <2>7 DEF Revoke
  <2> QED
    BY <1>5, <2>1, <2>2, <2>3, <2>4, <2>5, <2>6, <2>7 DEF Faulty
<1> QED
  BY <1>1, <1>2, <1>3, <1>4, <1>5 DEF Next

\* The command and its round.
LEMMA AskKept ==
  ASSUME Shapes, AskFits, Next
  PROVE  AskFits'
<1>0. /\ ask \in Asks /\ table \in Tables /\ round \in Nat
      /\ Playing.pc = "playing" /\ [Playing EXCEPT !.pc = "closing"].pc = "closing"
      /\ \A g : [Playing EXCEPT !.pc = "opening", !.gen = g].pc = "opening"
  BY BoundsAssumption DEF Shapes, TypeOK, Asks, Tables, Rounds, Playing
<1> USE DEF AskFits, Marked
<1>1. CASE Hand
  <2> USE DEF Asks, Tables, Settle
  <2>1. CASE LoseChips
    BY <1>0, <2>1 DEF LoseChips
  <2>2. CASE OpenRound
    <3>1. CASE ~ redis.up
      BY <1>0, <2>2, <3>1 DEF OpenRound
    <3>2. CASE redis.up
      <4>1. ask'.pc = "reading" /\ round' = round + 1 /\ ask.pc # "playing"
        BY <1>0, <2>2, <3>2 DEF OpenRound
      <4>2. table'.marker = round' /\ table'.seated = table.seated
        BY <1>0, <2>2, <3>2 DEF OpenRound
      <4> QED
        BY <1>0, <4>1, <4>2
    <3> QED
      BY <3>1, <3>2
  <2>3. CASE AskHim
    BY <1>0, <2>3 DEF AskHim
  <2>4. CASE Deadline
    BY <1>0, <2>4 DEF Deadline
  <2>5. CASE NoAnswer
    BY <1>0, <2>5 DEF NoAnswer
  <2>6. CASE Rebuy
    BY <1>0, <2>6 DEF Rebuy
  <2>7. CASE CloseRound
    BY <1>0, <2>7 DEF CloseRound
  <2>8. CASE Hold
    BY <1>0, <2>8 DEF Hold
  <2>9. CASE Resume
    BY <1>0, <2>9 DEF Resume
  <2>10. CASE Wake
    BY <1>0, <2>10 DEF Wake
  <2>11. CASE Unmark
    BY <1>0, <2>11 DEF Unmark
  <2>12. CASE FinishHand
    BY <1>0, <2>12 DEF FinishHand
  <2>13. CASE TournamentClosed
    BY <1>0, <2>13 DEF TournamentClosed
  <2> QED
    BY <1>1, <2>1, <2>2, <2>3, <2>4, <2>5, <2>6, <2>7, <2>8, <2>9, <2>10, <2>11, <2>12, <2>13 DEF Hand
<1>2. CASE Gateway
  <2> USE DEF Asks, server
  <2>1. CASE Keepalive
    BY <1>0, <2>1 DEF Keepalive
  <2>2. CASE Admit
    BY <1>0, <2>2 DEF Admit
  <2>3. CASE Greet
    BY <1>0, <2>3 DEF Greet
  <2>4. CASE HandleRebuyResponse
    BY <1>0, <2>4 DEF HandleRebuyResponse
  <2> QED
    BY <1>2, <2>1, <2>2, <2>3, <2>4 DEF Gateway
<1>3. CASE Tablet
  BY <1>3 DEF Tablet, Connect, Timer, Silence, Closed, Receive, Leave, server
<1>4. CASE People
  BY <1>4 DEF People, RetryNow, Reload, Press, server
<1>5. CASE Faulty
  <2> USE DEF Asks, Tables, Settle, server
  <2>1. CASE TicketFails
    BY <1>0, <2>1 DEF TicketFails
  <2>2. CASE CommandFails
    BY <1>0, <2>2 DEF CommandFails
  <2>3. CASE RedisDown
    BY <1>0, <2>3 DEF RedisDown, OutageIs
  <2>4. CASE RedisBack
    BY <1>0, <2>4 DEF RedisBack, OutageIs
  <2>5. CASE Cut
    BY <1>0, <2>5 DEF Cut
  <2>6. CASE Restart
    BY <1>0, <2>6 DEF Restart
  <2>7. CASE Revoke
    BY <1>0, <2>7 DEF Revoke
  <2> QED
    BY <1>5, <2>1, <2>2, <2>3, <2>4, <2>5, <2>6, <2>7 DEF Faulty
<1> QED
  BY <1>1, <1>2, <1>3, <1>4, <1>5 DEF Next

\* A seat that is lost does not come back.
LEMMA SeatLost ==
  ASSUME Shapes, Next
  PROVE  table'.seated => table.seated
<1>0. table \in Tables
  BY DEF Shapes, TypeOK, Tables
<1>1. CASE Hand
  <2> USE DEF Tables
  <2>1. CASE LoseChips
    BY <1>0, <2>1 DEF LoseChips
  <2>2. CASE OpenRound
    BY <1>0, <2>2 DEF OpenRound
  <2>3. CASE AskHim
    BY <1>0, <2>3 DEF AskHim
  <2>4. CASE Deadline
    BY <1>0, <2>4 DEF Deadline
  <2>5. CASE NoAnswer
    BY <1>0, <2>5 DEF NoAnswer
  <2>6. CASE Rebuy
    BY <1>0, <2>6 DEF Rebuy
  <2>7. CASE CloseRound
    BY <1>0, <2>7 DEF CloseRound
  <2>8. CASE Hold
    BY <1>0, <2>8 DEF Hold
  <2>9. CASE Resume
    BY <1>0, <2>9 DEF Resume
  <2>10. CASE Wake
    BY <1>0, <2>10 DEF Wake
  <2>11. CASE Unmark
    BY <1>0, <2>11 DEF Unmark
  <2>12. CASE FinishHand
    BY <1>0, <2>12 DEF FinishHand
  <2>13. CASE TournamentClosed
    BY <1>0, <2>13 DEF TournamentClosed
  <2> QED
    BY <1>1, <2>1, <2>2, <2>3, <2>4, <2>5, <2>6, <2>7, <2>8, <2>9, <2>10, <2>11, <2>12, <2>13 DEF Hand
<1>2. CASE Gateway
  BY <1>2 DEF Gateway, Keepalive, Admit, Greet, HandleRebuyResponse, server
<1>3. CASE Tablet
  BY <1>3 DEF Tablet, Connect, Timer, Silence, Closed, Receive, Leave, server
<1>4. CASE People
  BY <1>4 DEF People, RetryNow, Reload, Press, server
<1>5. CASE Faulty
  <2> USE DEF Tables, server
  <2>1. CASE TicketFails
    BY <1>0, <2>1 DEF TicketFails
  <2>2. CASE CommandFails
    BY <1>0, <2>2 DEF CommandFails
  <2>3. CASE RedisDown
    BY <1>0, <2>3 DEF RedisDown, OutageIs
  <2>4. CASE RedisBack
    BY <1>0, <2>4 DEF RedisBack, OutageIs
  <2>5. CASE Cut
    BY <1>0, <2>5 DEF Cut
  <2>6. CASE Restart
    BY <1>0, <2>6 DEF Restart
  <2>7. CASE Revoke
    BY <1>0, <2>7 DEF Revoke
  <2> QED
    BY <1>5, <2>1, <2>2, <2>3, <2>4, <2>5, <2>6, <2>7 DEF Faulty
<1> QED
  BY <1>1, <1>2, <1>3, <1>4, <1>5 DEF Next

\* Frames that do not say that he has lost his seat.
Harmless(f) == f.kind # "closed" /\ (f.kind = "render" => f.view.chair # "empty")
AllHarmless(q) == Seats(q) /\ Lacks(q, "closed")

\* A harmless frame at the end keeps the queue harmless.
LEMMA HarmlessMore ==
  ASSUME NEW q \in Seq(Frames), NEW f \in Frames
  PROVE  AllHarmless(q \o <<f>>) <=> (AllHarmless(q) /\ Harmless(f))
BY SeatsMore, LacksMore DEF AllHarmless, Harmless

\* The first frame of a harmless queue is harmless, and so is the rest.
LEMMA HarmlessLess ==
  ASSUME NEW q \in Seq(Frames), q # <<>>, AllHarmless(q)
  PROVE  AllHarmless(Tail(q)) /\ Harmless(Head(q))
BY SeatsLess, LacksLess DEF AllHarmless, Harmless

\* The frames of a table whose player has his seat.
LEMMA HarmlessFrames ==
  ASSUME NEW t \in Tables, t.seated
  PROVE  /\ Harmless(Render(t)) /\ Harmless(Prompt) /\ Harmless(Gone) /\ Harmless(Back)
         /\ Harmless(Close(1000)) /\ Harmless(Close(1008)) /\ Harmless(Close(4001))
         /\ Harmless([kind |-> "keepalive"])
BY DEF Tables, Harmless, Render, View, Prompt, Gone, Back, Close

\* What an action sends.
LEMMA HarmlessSent ==
  ASSUME Shapes, Next, table.seated, table'.seated, AllHarmless(down)
  PROVE  AllHarmless(down')
<1>0. /\ down \in Seq(Frames) /\ table \in Tables /\ table' \in Tables
  BY TableTyped DEF Shapes, TypeOK, Tables
<1>1. /\ Render(table) \in Frames /\ Render(table') \in Frames /\ Prompt \in Frames
      /\ Gone \in Frames /\ Back \in Frames
      /\ [kind |-> "keepalive"] \in Frames /\ [kind |-> "closed"] \in Frames
      /\ Close(1000) \in Frames /\ Close(1008) \in Frames /\ Close(4001) \in Frames
  BY <1>0, FramesSent
<1>2. /\ Harmless(Render(table)) /\ Harmless(Render(table')) /\ Harmless(Prompt)
      /\ Harmless(Gone) /\ Harmless(Back) /\ Harmless([kind |-> "keepalive"])
      /\ Harmless(Close(1000)) /\ Harmless(Close(1008)) /\ Harmless(Close(4001))
  BY <1>0, HarmlessFrames
<1>3. ASSUME NEW f \in Frames, Harmless(f), Send(<<f>>) PROVE AllHarmless(down')
  BY <1>0, <1>3, SendsOne, HarmlessMore
<1>4. ASSUME NEW f \in Frames, NEW g \in Frames, Harmless(f), Harmless(g), Send(<<f, g>>)
      PROVE AllHarmless(down')
  <2>1. down \o <<f>> \in Seq(Frames) /\ AllHarmless(down \o <<f>>)
    BY <1>0, <1>4, AtTheEnd, HarmlessMore
  <2>2. AllHarmless((down \o <<f>>) \o <<g>>)
    BY <1>4, <2>1, HarmlessMore
  <2> QED
    BY <1>0, <1>4, <2>2, SendsTwo
<1>5. AllHarmless(<<>>)
  BY NothingOnItsWay DEF AllHarmless
<1>6. \A f \in Frames : down' = Append(down, f) /\ Harmless(f) => AllHarmless(down')
  <2> SUFFICES ASSUME NEW f \in Frames, down' = Append(down, f), Harmless(f) PROVE AllHarmless(down')
    OBVIOUS
  <2>1. Append(down, f) = down \o <<f>>
    BY <1>0, AppendIsConcat
  <2>2. AllHarmless(down \o <<f>>)
    BY <1>0, HarmlessMore
  <2> QED
    BY <2>1, <2>2
<1>7. CASE UNCHANGED down
  BY <1>7
<1>8. CASE Hand
  <2>1. UNCHANGED down \/ Broadcast \/ Send(<<Prompt>>)
    <3>1. ~ TournamentClosed
      BY <1>0 DEF TournamentClosed, Tables
    <3> QED
      BY <1>8, <3>1 DEF Hand, LoseChips, OpenRound, AskHim, Deadline, NoAnswer, Rebuy, CloseRound,
         Hold, Resume, Wake, Unmark, FinishHand
  <2> QED
    BY <1>1, <1>2, <1>3, <1>7, <2>1 DEF Broadcast
<1>9. CASE Gateway
  <2>1. CASE Keepalive
    BY <1>1, <1>2, <1>3, <2>1 DEF Keepalive
  <2>2. CASE Admit
    BY <1>1, <1>2, <1>6, <1>7, <2>2 DEF Admit, Refuse
  <2>3. CASE Greet
    <3>1. CASE Refused
      BY <1>1, <1>2, <1>6, <3>1 DEF Refused, Refuse
    <3>2. CASE Greeted
      <4> DEFINE r == down \o <<Render(table)>>
      <4>1. r \in Seq(Frames) /\ AllHarmless(r)
        BY <1>0, <1>1, <1>2, AtTheEnd, HarmlessMore
      <4>2. down' = r \o Behind
        BY <3>2 DEF Greeted
      <4> HIDE DEF r
      <4>3. AllHarmless(r \o <<Gone>>) /\ AllHarmless(r \o <<Prompt>>) /\ r \o <<>> = r
        BY <1>1, <1>2, <4>1, HarmlessMore
      <4> QED
        BY <4>1, <4>2, <4>3, BehindCases
    <3> QED
      BY <2>3, <3>1, <3>2, GreetCases
  <2>4. CASE HandleRebuyResponse
    BY <1>7, <2>4 DEF HandleRebuyResponse
  <2> QED
    BY <1>9, <2>1, <2>2, <2>3, <2>4 DEF Gateway
<1>10. CASE Tablet
  <2>1. CASE Receive
    BY <1>0, <2>1, HarmlessLess DEF Receive
  <2>2. CASE Closed \/ Leave
    BY <1>5, <2>2 DEF Closed, Leave
  <2>3. CASE Connect \/ Timer \/ Silence
    BY <1>7, <2>3 DEF Connect, Timer, Silence
  <2> QED
    BY <1>10, <2>1, <2>2, <2>3 DEF Tablet
<1>11. CASE People
  BY <1>5, <1>7, <1>11 DEF People, RetryNow, Reload, Press
<1>12. CASE Faulty
  <2>1. CASE RedisDown
    <3>1. Send(<<Gone>>)
      BY <2>1 DEF RedisDown, OutageIs, Gone
    <3> QED
      BY <3>1, <1>1, <1>2, <1>3
  <2>2. CASE RedisBack
    <3>1. Send(<<Back, Render(table)>>)
      BY <2>2 DEF RedisBack, OutageIs, Back
    <3> QED
      BY <3>1, <1>1, <1>2, <1>4
  <2>3. CASE CommandFails
    BY <1>1, <1>2, <1>3, <1>7, <2>3 DEF CommandFails, Broadcast
  <2>4. CASE Revoke
    BY <1>1, <1>2, <1>6, <1>7, <2>4 DEF Revoke
  <2>5. CASE Cut \/ Restart
    BY <1>5, <2>5 DEF Cut, Restart
  <2>6. CASE TicketFails
    BY <1>7, <2>6 DEF TicketFails
  <2> QED
    BY <1>12, <2>1, <2>2, <2>3, <2>4, <2>5, <2>6 DEF Faulty
<1> QED
  BY <1>8, <1>9, <1>10, <1>11, <1>12 DEF Next

\* What reading a frame makes of the page.
After(p, f) ==
  CASE f.kind = "render" -> Shown(p, f.view)
    [] f.kind = "prompt" -> Asked(p)
    [] f.kind = "outage" -> [p EXCEPT !.outage = f.isDown]
    [] f.kind = "closed" -> [p EXCEPT !.closed = TRUE]
    [] OTHER             -> p

Reader == IF hook.sock = "joining" THEN [page EXCEPT !.outage = FALSE] ELSE page

\* Receive makes of the page what its first frame says.
LEMMA ReceiveReads ==
  ASSUME Receive
  PROVE  page' = After(Reader, Head(down))
BY DEF Receive, After, Reader, Frame

\* The page changes in three ways.
LEMMA PageChanges ==
  ASSUME Next
  PROVE  \/ UNCHANGED page \/ Receive \/ Reload
         \/ \E answer \in {"accept", "decline"} : Press(answer)
BY DEF Next, Hand, LoseChips, OpenRound, AskHim, Deadline, NoAnswer, Rebuy, CloseRound, Hold,
       Resume, Wake, Unmark, FinishHand, TournamentClosed, Gateway, Keepalive, Admit, Greet,
       HandleRebuyResponse, Tablet, Connect, Timer, Silence, Closed, Leave, People, RetryNow,
       Faulty, TicketFails, CommandFails, RedisDown, RedisBack, Cut, Restart, Revoke

\* The seat on the screen.
LEMMA SeatShownKept ==
  ASSUME Shapes, SeatShown, Next
  PROVE  SeatShown'
<1> SUFFICES ASSUME table'.seated PROVE SeatShown'
  BY DEF SeatShown
<1>1. table.seated /\ AllHarmless(down)
  BY SeatLost DEF SeatShown, AllHarmless
<1>2. AllHarmless(down')
  BY <1>1, HarmlessSent
<1> DEFINE Good(p) == p.view.chair # "empty" /\ p.exit # "seat-released" /\ ~ p.closed
<1>3. Good(page) /\ page \in Pages /\ table \in Tables /\ down \in Seq(Frames)
  BY <1>1 DEF SeatShown, Shapes, TypeOK, Pages, Tables
<1>4. Good(page')
  <2>1. CASE Receive
    <3>1. down # <<>>
      BY <2>1 DEF Receive
    <3>2. Harmless(Head(down)) /\ Head(down) \in Frames
      BY <1>1, <1>3, <3>1, HarmlessLess, BehindTheFirst
    <3>3. Reader \in Pages /\ Good(Reader)
      BY <1>3 DEF Reader, Pages
    <3> DEFINE p == Reader
               f == Head(down)
    <3>4. page' = After(p, f)
      BY <2>1, ReceiveReads
    <3> HIDE DEF p, f
    <3>5. Good(After(p, f))
      BY <3>2, <3>3 DEF After, Shown, Asked, Pages, Harmless, p, f
    <3> QED
      BY <3>4, <3>5
  <2>2. CASE Reload
    BY <1>1, <1>3, <2>2 DEF Reload, Fresh, View, Tables
  <2>3. CASE \E answer \in {"accept", "decline"} : Press(answer)
    BY <1>3, <2>3 DEF Press, Pages
  <2>4. CASE UNCHANGED page
    BY <1>3, <2>4
  <2> QED
    BY <2>1, <2>2, <2>3, <2>4, PageChanges
<1> QED
  BY <1>2, <1>4 DEF SeatShown, AllHarmless

\* A greeted page and a greeting: the two ways to a step that ends greeted.
LEMMA StaysGreeted ==
  ASSUME Next, wire' = "greeted"
  PROVE  wire = "greeted" \/ (Greet /\ Greeted)
<1>1. CASE Hand
  BY <1>1 DEF Hand, LoseChips, OpenRound, AskHim, Deadline, NoAnswer, Rebuy, CloseRound, Hold,
       Resume, Wake, Unmark, FinishHand, TournamentClosed
<1>2. CASE Gateway
  <2>1. CASE Greet
    BY <2>1, GreetCases DEF Refused, Refuse
  <2> QED
    BY <1>2, <2>1 DEF Gateway, Keepalive, Admit, Refuse, HandleRebuyResponse
<1>3. CASE Tablet
  BY <1>3 DEF Tablet, Connect, Timer, Silence, Closed, Receive, Leave
<1>4. CASE People
  BY <1>4 DEF People, RetryNow, Reload, Press
<1>5. CASE Faulty
  <2>1. CASE TicketFails
    BY <2>1 DEF TicketFails, Torn
  <2>2. CASE CommandFails
    BY <2>2 DEF CommandFails, Torn
  <2>3. CASE RedisDown
    BY <2>3 DEF RedisDown, OutageIs, Torn
  <2>4. CASE RedisBack
    BY <2>4 DEF RedisBack, OutageIs, Torn
  <2>5. CASE Cut
    BY <2>5 DEF Cut, Torn
  <2>6. CASE Restart
    BY <2>6 DEF Restart, Torn
  <2>7. CASE Revoke
    BY <2>7 DEF Revoke, Torn
  <2> QED
    BY <1>5, <2>1, <2>2, <2>3, <2>4, <2>5, <2>6, <2>7 DEF Faulty
<1> QED
  BY <1>1, <1>2, <1>3, <1>4, <1>5 DEF Next

\* The same marker and banner are fitting for the same views.
LEMMA SameFitting ==
  ASSUME NEW t, NEW u, View(t).marked = View(u).marked, View(t).resume = View(u).resume
  PROVE  Fitting(t) = Fitting(u)
BY DEF Fitting

\* Actions that change nothing of what a page shows and send no view.
LEMMA ViewSilent ==
  ASSUME Shapes, ViewFits, table' \in Tables, wire = "greeted", page'.view = page.view,
         View(table').marked = View(table).marked, View(table').resume = View(table).resume,
         \/ UNCHANGED down
         \/ \E f \in Frames : f.kind # "render" /\ Send(<<f>>)
  PROVE  ViewFits'
<1>1. down \in Seq(Frames) /\ ComesTo(down, page.view, Fitting(table))
  BY DEF Shapes, TypeOK, ViewFits
<1>2. Fitting(table') = Fitting(table)
  BY SameFitting
<1> DEFINE v == page.view
           S == Fitting(table)
<1>3. CASE UNCHANGED down
  BY <1>1, <1>2, <1>3 DEF ViewFits
<1>4. ASSUME NEW f \in Frames, f.kind # "render", Send(<<f>>)
      PROVE  ViewFits'
  <2>1. down' = down \o <<f>>
    BY <1>1, <1>4, SendsOne DEF InRoom
  <2>2. ComesTo(down, v, S)
    BY <1>1
  <2> HIDE DEF v, S
  <2>3. ComesTo(down \o <<f>>, v, S)
    BY <1>1, <1>4, <2>2, ComesToMore
  <2>4. page'.view = v /\ Fitting(table') = S
    BY <1>2 DEF v, S
  <2> QED
    BY <2>1, <2>3, <2>4 DEF ViewFits
<1> QED
  BY <1>3, <1>4

\* Actions behind which a view of the table is the last frame.
LEMMA ViewSent ==
  ASSUME Shapes, table' \in Tables, NEW q \in Seq(Frames), down' = q \o <<Render(table')>>
  PROVE  ViewFits'
<1> DEFINE f == Render(table')
           v == page'.view
           S == Fitting(table')
<1>1. f \in Frames /\ f.kind = "render" /\ f.view \in S
  BY FramesSent DEF Render, Fitting
<1> HIDE DEF f, S, v
<1>2. ComesTo(q \o <<f>>, v, S)
  BY <1>1, ComesToMore
<1> QED
  BY <1>2 DEF f, S, v, ViewFits

\* The view.
LEMMA ViewKept ==
  ASSUME Shapes, ViewFits, Next
  PROVE  ViewFits'
<1> SUFFICES ASSUME wire' = "greeted" PROVE ViewFits'
  BY DEF ViewFits
<1>0. table \in Tables /\ table' \in Tables /\ down \in Seq(Frames)
  BY TableTyped DEF Shapes, TypeOK, Tables
<1>1. /\ Prompt \in Frames /\ Gone \in Frames /\ [kind |-> "keepalive"] \in Frames
      /\ Back \in Frames /\ Render(table) \in Frames /\ Render(table') \in Frames
  BY <1>0, FramesSent
<1>2. Prompt.kind # "render" /\ Gone.kind # "render" /\ Back.kind # "render"
  BY DEF Prompt, Gone, Back
<1>3. CASE Greet /\ Greeted
  <2> DEFINE r == Render(table)
             q == down \o <<r>>
             v == page.view
             S == Fitting(table)
  <2>1. r \in Frames /\ r.kind = "render" /\ r.view \in S
    BY <1>0, <1>1, FramesSent DEF Render, Fitting
  <2>2. q \in Seq(Frames)
    BY <1>0, <1>1, AtTheEnd
  <2>3. down' = q \o Behind /\ page' = page /\ table' = table
    BY <1>3 DEF Greeted, server
  <2> HIDE DEF r, v, S
  <2>4. ComesTo(q, v, S)
    BY <1>0, <2>1, ComesToMore
  <2> HIDE DEF q
  <2>5. ComesTo(q \o <<Gone>>, v, S) /\ ComesTo(q \o <<Prompt>>, v, S) /\ q \o <<>> = q
    BY <1>1, <1>2, <2>2, <2>4, ComesToMore
  <2>6. ComesTo(q \o Behind, v, S)
    BY <2>4, <2>5, BehindCases
  <2> QED
    BY <2>3, <2>6 DEF v, S, ViewFits
<1>4. CASE wire = "greeted"
  <2> USE <1>4
  <2>0. ASSUME Broadcast PROVE ViewFits'
    <3>1. down' = down \o <<Render(table')>>
      BY <1>0, <1>1, <2>0, SendsOne DEF Broadcast, InRoom
    <3> QED
      BY <1>0, <3>1, ViewSent
  <2>1. ASSUME UNCHANGED <<table, page>>, UNCHANGED down \/ Send(<<Prompt>>) PROVE ViewFits'
    BY <1>0, <1>1, <1>2, <2>1, ViewSilent
  <2>2. CASE Hand
    <3>1. CASE LoseChips
      <4>1. page'.view = page.view /\ UNCHANGED down
        BY <3>1 DEF LoseChips
      <4>2. View(table').marked = View(table).marked /\ View(table').resume = View(table).resume
        BY <1>0, <3>1 DEF LoseChips, View, Tables
      <4> QED
        BY <1>0, <4>1, <4>2, ViewSilent
    <3>2. CASE Rebuy
      <4>1. Broadcast \/ (UNCHANGED <<down, page>> /\ (UNCHANGED table \/ table' = [table EXCEPT !.chips = TRUE]))
        BY <3>2 DEF Rebuy
      <4>2. table' = [table EXCEPT !.chips = TRUE] =>
              View(table').marked = View(table).marked /\ View(table').resume = View(table).resume
        BY <1>0 DEF View, Tables
      <4> QED
        BY <1>0, <2>0, <4>1, <4>2, ViewSilent
    <3>3. CASE OpenRound \/ AskHim
      BY <2>0, <2>1, <3>3 DEF OpenRound, AskHim
    <3>4. CASE Deadline \/ NoAnswer \/ CloseRound \/ Wake
      BY <2>1, <3>4 DEF Deadline, NoAnswer, CloseRound, Wake
    <3>5. CASE Hold \/ Resume \/ Unmark \/ FinishHand
      BY <2>0, <3>5 DEF Hold, Resume, Unmark, FinishHand
    <3>6. CASE TournamentClosed
      BY <3>6 DEF TournamentClosed, InRoom
    <3> QED
      BY <2>2, <3>1, <3>2, <3>3, <3>4, <3>5, <3>6 DEF Hand
  <2>3. CASE Gateway
    <3>1. CASE HandleRebuyResponse
      BY <2>1, <3>1 DEF HandleRebuyResponse
    <3> QED
      BY <2>3, <3>1 DEF Gateway, Keepalive, Admit, Greet
  <2>4. CASE Tablet
    <3>1. CASE Receive
      <4>1. down # <<>> /\ down' = Tail(down) /\ table' = table /\ Head(down).kind # "close"
        BY <3>1 DEF Receive, Frame, server
      <4>2. Head(down) \in Frames
        BY <1>0, <4>1, BehindTheFirst
      <4> DEFINE v == page.view
                 w == page'.view
                 S == Fitting(table)
                 f == Head(down)
                 p == Reader
      <4>3. p \in Pages /\ p.view = v
        BY DEF Shapes, TypeOK, Reader, Pages
      <4>4. page' = After(p, f)
        BY <3>1, ReceiveReads
      <4>5. w = IF f.kind = "render" THEN f.view ELSE v
        <5> HIDE DEF p, f, v
        <5> QED
          BY <4>3, <4>4 DEF After, Shown, Asked, Pages
      <4>6. ComesTo(down, v, S)
        BY DEF ViewFits
      <4> HIDE DEF v, w, S, p
      <4>7. ComesTo(Tail(down), w, S)
        BY <1>0, <4>1, <4>5, <4>6, ComesToLess
      <4> QED
        BY <4>1, <4>7 DEF w, S, ViewFits
    <3>2. CASE Connect \/ Timer
      BY <2>1, <3>2 DEF Connect, Timer, server
    <3> QED
      BY <2>4, <3>1, <3>2 DEF Tablet, Silence, Closed, Leave
  <2>5. CASE People
    <3>1. CASE RetryNow
      BY <2>1, <3>1 DEF RetryNow, server
    <3>2. ASSUME NEW answer \in {"accept", "decline"}, Press(answer) PROVE ViewFits'
      <4>1. page'.view = page.view /\ UNCHANGED <<table, down>>
        BY <3>2 DEF Press, Shapes, TypeOK, server
      <4> QED
        BY <1>0, <4>1, ViewSilent
    <3> QED
      BY <2>5, <3>1, <3>2 DEF People, Reload
  <2>6. CASE Faulty
    <3>1. CASE RedisDown
      <4>1. Send(<<Gone>>) /\ UNCHANGED <<table, page>>
        BY <3>1 DEF RedisDown, OutageIs, Gone
      <4> QED
        BY <1>0, <1>1, <1>2, <4>1, ViewSilent
    <3>2. CASE RedisBack
      <4>1. Send(<<Back, Render(table)>>) /\ UNCHANGED <<table, page>>
        BY <3>2 DEF RedisBack, OutageIs, Back
      <4>2. down' = (down \o <<Back>>) \o <<Render(table)>>
        BY <1>0, <1>1, <4>1, SendsTwo DEF InRoom
      <4>3. down \o <<Back>> \in Seq(Frames)
        BY <1>0, <1>1, AtTheEnd
      <4>4. down' = (down \o <<Back>>) \o <<Render(table')>>
        BY <4>1, <4>2
      <4> QED
        BY <1>0, <4>3, <4>4, ViewSent
    <3>3. CASE CommandFails
      BY <2>0, <2>1, <3>3 DEF CommandFails
    <3>4. CASE TicketFails
      BY <2>1, <3>4 DEF TicketFails, server
    <3>5. CASE Revoke
      BY <2>1, <3>5 DEF Revoke, InRoom
    <3> QED
      BY <2>6, <3>1, <3>2, <3>3, <3>4, <3>5 DEF Faulty, Cut, Restart, Torn
  <2> QED
    BY <2>2, <2>3, <2>4, <2>5, <2>6 DEF Next
<1> QED
  BY <1>3, <1>4, StaysGreeted

\* Redis goes, and with it the question.
LEMMA RedisGoes ==
  RedisDown => /\ redis' = [up |-> FALSE, gen |-> redis.gen + 1]
               /\ ask.pc = "waiting" => ask' = [ask EXCEPT !.pc = "settled", !.again = TRUE]
BY DEF RedisDown, Settle

\* Actions that change nothing of the banner of an outage.
LEMMA ToldSilent ==
  ASSUME Shapes, OutageTold, InRoom, redis.up, Banner' = Banner,
         \/ UNCHANGED down
         \/ \E f \in Frames : f.kind # "outage" /\ Send(<<f>>)
  PROVE  OutageTold'
<1>1. down \in Seq(Frames) /\ Clears(down, Banner)
  BY DEF Shapes, TypeOK, OutageTold
<1> DEFINE b == Banner
<1>2. CASE UNCHANGED down
  BY <1>1, <1>2 DEF OutageTold
<1>3. ASSUME NEW f \in Frames, f.kind # "outage", Send(<<f>>)
      PROVE  OutageTold'
  <2>1. down' = down \o <<f>>
    BY <1>1, <1>3, SendsOne
  <2>2. Clears(down, b)
    BY <1>1
  <2> HIDE DEF b
  <2>3. Clears(down \o <<f>>, b)
    BY <1>1, <1>3, <2>2, ClearsMore
  <2>4. Banner' = b
    BY DEF b
  <2> QED
    BY <2>1, <2>3, <2>4 DEF OutageTold
<1> QED
  BY <1>2, <1>3

\* Two ways into the room, and two to a Redis that is there.
LEMMA StaysInRoom ==
  ASSUME Next, InRoom'
  PROVE  InRoom \/ Admit
<1>1. CASE Hand
  BY <1>1 DEF Hand, LoseChips, OpenRound, AskHim, Deadline, NoAnswer, Rebuy, CloseRound, Hold,
       Resume, Wake, Unmark, FinishHand, TournamentClosed, InRoom
<1>2. CASE Gateway
  BY <1>2 DEF Gateway, Keepalive, Admit, Greet, HandleRebuyResponse, InRoom
<1>3. CASE Tablet
  BY <1>3 DEF Tablet, Connect, Timer, Silence, Closed, Receive, Leave, InRoom
<1>4. CASE People
  BY <1>4 DEF People, RetryNow, Reload, Press, InRoom
<1>5. CASE Faulty
  <2>1. CASE TicketFails
    BY <2>1 DEF TicketFails, Torn, InRoom
  <2>2. CASE CommandFails
    BY <2>2 DEF CommandFails, Torn, InRoom
  <2>3. CASE RedisDown
    BY <2>3 DEF RedisDown, OutageIs, Torn, InRoom
  <2>4. CASE RedisBack
    BY <2>4 DEF RedisBack, OutageIs, Torn, InRoom
  <2>5. CASE Cut
    BY <2>5 DEF Cut, Torn, InRoom
  <2>6. CASE Restart
    BY <2>6 DEF Restart, Torn, InRoom
  <2>7. CASE Revoke
    BY <2>7 DEF Revoke, Torn, InRoom
  <2> QED
    BY <1>5, <2>1, <2>2, <2>3, <2>4, <2>5, <2>6, <2>7 DEF Faulty
<1> QED
  BY <1>1, <1>2, <1>3, <1>4, <1>5 DEF Next

\* The outage.
LEMMA OutageKept ==
  ASSUME Shapes, WireFits, OutageTold, Next
  PROVE  OutageTold'
<1> SUFFICES ASSUME InRoom', redis'.up PROVE OutageTold'
  BY DEF OutageTold
<1>0. /\ table \in Tables /\ table' \in Tables /\ down \in Seq(Frames) /\ wire \in Wires
      /\ hook \in Hooks /\ page \in Pages
  BY TableTyped DEF Shapes, TypeOK, Tables, Wires, Hooks, Pages
<1>1. /\ Prompt \in Frames /\ Gone \in Frames /\ [kind |-> "keepalive"] \in Frames
      /\ Back \in Frames /\ Render(table) \in Frames /\ Render(table') \in Frames
  BY <1>0, FramesSent
<1>2. /\ Prompt.kind # "outage" /\ Render(table).kind # "outage" /\ Render(table').kind # "outage"
      /\ Back.kind = "outage" /\ ~ Back.isDown
      /\ [kind |-> "keepalive"].kind # "outage"
  BY DEF Prompt, Render, Back
<1>3. CASE Admit
  <2>1. down' = <<>> /\ hook'.sock = "joining"
    BY <1>0, <1>3 DEF Admit, WireFits, Refuse, InRoom
  <2>2. ~ Banner'
    BY <2>1 DEF Banner
  <2> DEFINE b == Banner'
  <2>3. ~ b
    BY <2>2
  <2> HIDE DEF b
  <2>4. Clears(<<>>, b)
    BY <2>3, NothingOnItsWay
  <2> QED
    BY <2>1, <2>4 DEF OutageTold, b
<1>4. CASE RedisBack /\ InRoom
  <2> DEFINE b == Banner'
  <2>1. Send(<<Back, Render(table)>>)
    BY <1>4 DEF RedisBack, OutageIs, Back
  <2>2. down' = (down \o <<Back>>) \o <<Render(table)>>
    BY <1>0, <1>1, <1>4, <2>1, SendsTwo
  <2>3. down \o <<Back>> \in Seq(Frames)
    BY <1>0, <1>1, AtTheEnd
  <2> HIDE DEF b
  <2>4. Clears(down \o <<Back>>, b)
    BY <1>0, <1>1, <1>2, ClearsMore
  <2>5. Clears((down \o <<Back>>) \o <<Render(table)>>, b)
    BY <1>1, <1>2, <2>3, <2>4, ClearsMore
  <2> QED
    BY <2>2, <2>5 DEF OutageTold, b
<1>5. CASE InRoom /\ ~ RedisBack
  <2>0. redis.up /\ Connected
    <3>1. UNCHANGED redis \/ RedisDown \/ RedisBack \/ Restart
      BY DEF Next, Hand, LoseChips, OpenRound, AskHim, Deadline, NoAnswer, Rebuy, CloseRound, Hold,
         Resume, Wake, Unmark, FinishHand, TournamentClosed, Gateway, Keepalive, Admit, Greet,
         HandleRebuyResponse, Tablet, Connect, Timer, Silence, Closed, Receive, Leave, People,
         RetryNow, Reload, Press, Faulty, TicketFails, CommandFails, Cut, Revoke, server
    <3>2. ~ Restart
      BY <1>0 DEF Restart, Torn, InRoom, Wires
    <3>3. ~ RedisDown
      BY RedisGoes
    <3> QED
      BY <1>5, <3>1, <3>2, <3>3 DEF WireFits, InRoom
  <2>1. Clears(down, Banner)
    BY <1>5, <2>0 DEF OutageTold
  <2>2. ASSUME Banner' = Banner, UNCHANGED down \/ Send(<<Prompt>>) \/ Broadcast PROVE OutageTold'
    BY <1>1, <1>2, <1>5, <2>0, <2>2, ToldSilent DEF Broadcast
  <2>3. CASE Hand
    <3>1. Banner' = Banner
      BY <2>3 DEF Hand, LoseChips, OpenRound, AskHim, Deadline, NoAnswer, Rebuy, CloseRound, Hold,
         Resume, Wake, Unmark, FinishHand, TournamentClosed, Banner
    <3>2. ~ TournamentClosed
      BY <1>5 DEF TournamentClosed, InRoom
    <3>3. UNCHANGED down \/ Send(<<Prompt>>) \/ Broadcast
      BY <2>3, <3>2 DEF Hand, LoseChips, OpenRound, AskHim, Deadline, NoAnswer, Rebuy, CloseRound,
         Hold, Resume, Wake, Unmark, FinishHand
    <3> QED
      BY <2>2, <3>1, <3>3
  <2>4. CASE Gateway
    <3>1. Banner' = Banner
      BY <2>4 DEF Gateway, Keepalive, Admit, Greet, HandleRebuyResponse, Banner
    <3>2. CASE Keepalive
      BY <1>1, <1>2, <1>5, <2>0, <3>1, <3>2, ToldSilent DEF Keepalive
    <3>3. CASE Greet
      <4> DEFINE q == down \o <<Render(table)>>
                 b == Banner
      <4>1. Greeted
        BY <3>3, GreetCases DEF Refused, Refuse, InRoom
      <4>2. down' = q \o Behind
        BY <4>1 DEF Greeted
      <4>3. q \in Seq(Frames)
        BY <1>0, <1>1, AtTheEnd
      <4>4. Clears(down, b)
        BY <2>1
      <4> HIDE DEF b
      <4>5. Clears(q, b)
        BY <1>0, <1>1, <1>2, <4>4, ClearsMore
      <4> HIDE DEF q
      <4>6. Clears(q \o <<Prompt>>, b) /\ q \o <<>> = q
        BY <1>1, <1>2, <4>3, <4>5, ClearsMore
      <4>7. Clears(q \o Behind, b)
        BY <2>0, <4>5, <4>6, BehindCases
      <4>8. Banner' = b
        BY <3>1 DEF b
      <4> QED
        BY <4>2, <4>7, <4>8 DEF OutageTold
    <3>4. CASE HandleRebuyResponse \/ Admit
      BY <1>5, <2>2, <3>1, <3>4 DEF HandleRebuyResponse, Admit, InRoom
    <3> QED
      BY <2>4, <3>2, <3>3, <3>4 DEF Gateway
  <2>5. CASE Tablet
    <3>1. CASE Receive
      <4>1. down # <<>> /\ down' = Tail(down) /\ hook'.sock = "open"
        BY <3>1 DEF Receive
      <4>2. Head(down) \in Frames
        BY <1>0, <4>1, BehindTheFirst
      <4> DEFINE b == Banner
                 c == Banner'
                 f == Head(down)
                 p == Reader
      <4>3. p \in Pages /\ (p.outage <=> b)
        BY <1>0, <2>0 DEF Reader, Pages, Banner, Connected
      <4>4. page' = After(p, f)
        BY <3>1, ReceiveReads
      <4>5. c <=> page'.outage
        BY <4>1 DEF Banner
      <4>6. f.kind = "outage" => f.isDown \in BOOLEAN
        BY <4>2, FrameKinds
      <4>7. c => IF f.kind = "outage" THEN f.isDown ELSE b
        <5> HIDE DEF p, f, b, c
        <5> QED
          BY <4>3, <4>4, <4>5, <4>6 DEF After, Shown, Asked, Pages
      <4>8. Clears(down, b)
        BY <2>1
      <4> HIDE DEF b, c, p
      <4>9. Clears(Tail(down), c)
        BY <1>0, <4>1, <4>7, <4>8, ClearsLess
      <4> QED
        BY <4>1, <4>9 DEF c, OutageTold
    <3> QED
      BY <1>5, <2>0, <2>5, <3>1 DEF Tablet, Connect, Timer, Silence, Closed, Leave, InRoom, Connected
  <2>6. CASE People
    <3>1. ASSUME NEW answer \in {"accept", "decline"}, Press(answer) PROVE OutageTold'
      <4>1. Banner' = Banner /\ UNCHANGED down
        BY <1>0, <3>1 DEF Press, Banner, Pages
      <4> QED
        BY <2>2, <4>1
    <3> QED
      BY <2>0, <2>6, <3>1 DEF People, RetryNow, Reload, Connected, InRoom
  <2>7. CASE Faulty
    <3>1. CASE CommandFails
      BY <2>2, <3>1 DEF CommandFails, Banner
    <3>2. CASE Revoke
      BY <1>5, <2>2, <3>2 DEF Revoke, InRoom, Banner
    <3>3. ~ TicketFails /\ ~ RedisDown /\ ~ Cut /\ ~ Restart
      <4>1. ~ RedisDown
        BY RedisGoes
      <4> QED
        BY <1>0, <2>0, <4>1 DEF TicketFails, Cut, Restart, Torn, InRoom, Wires, Connected
    <3> QED
      BY <1>5, <2>7, <3>1, <3>2, <3>3 DEF Faulty
  <2> QED
    BY <2>3, <2>4, <2>5, <2>6, <2>7 DEF Next
<1> QED
  BY <1>3, <1>4, <1>5, StaysInRoom

\* A command waits because it has asked.
LEMMA StaysWaiting ==
  ASSUME Shapes, Next, ask'.pc = "waiting"
  PROVE  AskHim \/ (ask.pc = "waiting" /\ UNCHANGED ask)
<1>0. ask \in Asks /\ Playing.pc = "playing" /\ [Playing EXCEPT !.pc = "closing"].pc = "closing"
      /\ \A g : [Playing EXCEPT !.pc = "opening", !.gen = g].pc = "opening"
  BY DEF Shapes, TypeOK, Asks, Playing
<1>1. CASE Hand
  <2> USE DEF Asks, Settle
  <2>1. CASE LoseChips
    BY <1>0, <2>1 DEF LoseChips
  <2>2. CASE OpenRound
    BY <1>0, <2>2 DEF OpenRound
  <2>3. CASE AskHim
    BY <1>0, <2>3 DEF AskHim
  <2>4. CASE Deadline
    BY <1>0, <2>4 DEF Deadline
  <2>5. CASE NoAnswer
    BY <1>0, <2>5 DEF NoAnswer
  <2>6. CASE Rebuy
    BY <1>0, <2>6 DEF Rebuy
  <2>7. CASE CloseRound
    BY <1>0, <2>7 DEF CloseRound
  <2>8. CASE Hold
    BY <1>0, <2>8 DEF Hold
  <2>9. CASE Resume
    BY <1>0, <2>9 DEF Resume
  <2>10. CASE Wake
    BY <1>0, <2>10 DEF Wake
  <2>11. CASE Unmark
    BY <1>0, <2>11 DEF Unmark
  <2>12. CASE FinishHand
    BY <1>0, <2>12 DEF FinishHand
  <2>13. CASE TournamentClosed
    BY <1>0, <2>13 DEF TournamentClosed
  <2> QED
    BY <1>1, <2>1, <2>2, <2>3, <2>4, <2>5, <2>6, <2>7, <2>8, <2>9, <2>10, <2>11, <2>12, <2>13 DEF Hand
<1>2. CASE Gateway
  <2> USE DEF Asks, server
  <2>1. CASE Keepalive
    BY <1>0, <2>1 DEF Keepalive
  <2>2. CASE Admit
    BY <1>0, <2>2 DEF Admit
  <2>3. CASE Greet
    BY <1>0, <2>3 DEF Greet
  <2>4. CASE HandleRebuyResponse
    BY <1>0, <2>4 DEF HandleRebuyResponse
  <2> QED
    BY <1>2, <2>1, <2>2, <2>3, <2>4 DEF Gateway
<1>3. CASE Tablet
  BY <1>3 DEF Tablet, Connect, Timer, Silence, Closed, Receive, Leave, server
<1>4. CASE People
  BY <1>4 DEF People, RetryNow, Reload, Press, server
<1>5. CASE Faulty
  <2> USE DEF Asks, Settle, server
  <2>1. CASE TicketFails
    BY <1>0, <2>1 DEF TicketFails
  <2>2. CASE CommandFails
    BY <1>0, <2>2 DEF CommandFails
  <2>3. CASE RedisDown
    BY <1>0, <2>3 DEF RedisDown, OutageIs
  <2>4. CASE RedisBack
    BY <1>0, <2>4 DEF RedisBack, OutageIs
  <2>5. CASE Cut
    BY <1>0, <2>5 DEF Cut
  <2>6. CASE Restart
    BY <1>0, <2>6 DEF Restart
  <2>7. CASE Revoke
    BY <1>0, <2>7 DEF Revoke
  <2> QED
    BY <1>5, <2>1, <2>2, <2>3, <2>4, <2>5, <2>6, <2>7 DEF Faulty
<1> QED
  BY <1>1, <1>2, <1>3, <1>4, <1>5 DEF Next

\* A prompt that is on its way stays there when a frame is sent.
LEMMA PromptStays ==
  ASSUME NEW q \in Seq(Frames), NEW f \in Frames, ~ Lacks(q, "prompt")
  PROVE  ~ Lacks(q \o <<f>>, "prompt")
BY LacksMore

\* The question.
LEMMA ReachedKept ==
  ASSUME Shapes, WireFits, SeatShown, AskFits, Reached, Next
  PROVE  Reached'
<1> SUFFICES ASSUME ask'.pc = "waiting", wire' = "greeted" PROVE Reached'
  BY DEF Reached
<1>0. /\ table \in Tables /\ table' \in Tables /\ down \in Seq(Frames) /\ wire \in Wires
      /\ hook \in Hooks /\ page \in Pages /\ ask \in Asks
  BY TableTyped DEF Shapes, TypeOK, Tables, Wires, Hooks, Pages, Asks
<1>1. /\ Prompt \in Frames /\ Gone \in Frames /\ [kind |-> "keepalive"] \in Frames
      /\ Back \in Frames /\ Render(table) \in Frames /\ Render(table') \in Frames
      /\ Prompt.kind = "prompt"
  BY <1>0, FramesSent DEF Prompt
<1>2. CASE AskHim
  <2>1. wire = "greeted" /\ Send(<<Prompt>>)
    BY <1>0, <1>2 DEF AskHim, Settle, Asks
  <2>2. down' = down \o <<Prompt>>
    BY <1>0, <1>1, <2>1, SendsOne DEF InRoom
  <2>3. ~ Lacks(down \o <<Prompt>>, "prompt")
    BY <1>0, <1>1, LacksMore
  <2> QED
    BY <2>2, <2>3 DEF Reached
<1>3. CASE ask.pc = "waiting" /\ UNCHANGED ask
  <2>1. /\ redis.up /\ prompt = [round |-> round, gen |-> redis.gen]
        /\ table.seated /\ table.marker = round /\ round # 0
    BY <1>3 DEF AskFits, Marked
  <2>2. CASE Greet /\ Greeted
    <3>1. Behind = <<Prompt>>
      <4>1. prompt.round = round /\ prompt.gen = redis.gen /\ round \in Nat
        BY <2>1, BoundsAssumption DEF Shapes, TypeOK, Rounds
      <4> QED
        BY <2>1, <4>1, BehindCases
    <3> DEFINE q == down \o <<Render(table)>>
    <3>2. q \in Seq(Frames)
      BY <1>0, <1>1, AtTheEnd
    <3>3. down' = q \o <<Prompt>>
      BY <2>2, <3>1 DEF Greeted
    <3> HIDE DEF q
    <3>4. ~ Lacks(q \o <<Prompt>>, "prompt")
      BY <1>1, <3>2, LacksMore
    <3> QED
      BY <3>3, <3>4 DEF Reached
  <2>3. CASE wire = "greeted"
    <3>0. InRoom /\ Connected
      BY <2>3 DEF InRoom, WireFits
    <3>1. ~ Lacks(down, "prompt") \/ up # <<>> \/ (page.asks /\ page.exit = "none")
      BY <1>3, <2>3 DEF Reached
    <3>2. ASSUME UNCHANGED <<up, page>>, UNCHANGED down \/ \E f \in Frames : Send(<<f>>)
          PROVE  Reached'
      <4>1. CASE UNCHANGED down
        BY <3>1, <3>2, <4>1 DEF Reached
      <4>2. ASSUME NEW f \in Frames, Send(<<f>>) PROVE ~ Lacks(down, "prompt") => ~ Lacks(down', "prompt")
        BY <1>0, <3>0, <4>2, SendsOne, PromptStays
      <4> QED
        BY <3>1, <3>2, <4>1, <4>2 DEF Reached
    <3>3. CASE Hand
      <4>1. CASE Resume
        BY <1>1, <3>2, <4>1 DEF Resume, Broadcast
      <4>2. CASE TournamentClosed
        BY <3>0, <4>2 DEF TournamentClosed
      <4> QED
        BY <1>0, <1>3, <3>3, <4>1, <4>2
           DEF Hand, LoseChips, OpenRound, AskHim, Deadline, NoAnswer, Rebuy, CloseRound, Hold, Wake,
               Unmark, FinishHand, Settle, Asks
    <3>4. CASE Gateway
      <4>1. CASE HandleRebuyResponse
        <5>1. ask'.pc \in {"accepted", "settled"}
          BY <1>0, <1>3, <2>1, <4>1 DEF HandleRebuyResponse, Asks
        <5> QED
          BY <5>1
      <4> QED
        BY <2>3, <3>4, <4>1 DEF Gateway, Keepalive, Admit, Greet
    <3>5. CASE Tablet
      <4>1. CASE Receive
        <5>1. down # <<>> /\ down' = Tail(down) /\ up' = up
          BY <4>1 DEF Receive
        <5>2. Head(down) \in Frames /\ Harmless(Head(down))
          BY <1>0, <2>1, <5>1, BehindTheFirst, HarmlessLess DEF SeatShown, AllHarmless
        <5>3. Lacks(down, "prompt") <=> (Lacks(Tail(down), "prompt") /\ Head(down).kind # "prompt")
          BY <1>0, <5>1, LacksLess
        <5> DEFINE p == Reader
                   f == Head(down)
        <5>4. p \in Pages /\ p.asks = page.asks /\ p.exit = page.exit /\ p.exit # "seat-released"
          BY <1>0, <2>1 DEF Reader, Pages, SeatShown
        <5>5. page' = After(p, f)
          BY <4>1, ReceiveReads
        <5>6. f.kind = "prompt" => page'.asks /\ page'.exit = "none"
          <6> HIDE DEF p, f
          <6> QED
            BY <5>4, <5>5 DEF After, Asked, Pages
        <5>7. f.kind # "prompt" => page'.asks = p.asks /\ page'.exit = p.exit
          <6>1. Harmless(f)
            BY <5>2
          <6> HIDE DEF p, f
          <6> QED
            BY <5>4, <5>5, <6>1 DEF After, Shown, Pages, Harmless
        <5> HIDE DEF p, f
        <5>8. f.kind = Head(down).kind
          BY DEF f
        <5> QED
          BY <3>1, <5>1, <5>3, <5>4, <5>6, <5>7, <5>8 DEF Reached
      <4> QED
        BY <2>3, <3>0, <3>5, <4>1 DEF Tablet, Connect, Timer, Silence, Closed, Leave, Connected
    <3>6. CASE People
      <4>1. ASSUME NEW answer \in {"accept", "decline"}, Press(answer) PROVE Reached'
        <5>1. up' = Append(up, answer)
          BY <3>0, <4>1 DEF Press
        <5>2. up \in Seq({"accept", "decline"})
          BY DEF Shapes, TypeOK
        <5>3. Append(up, answer) # <<>>
          BY <5>2
        <5> QED
          BY <5>1, <5>3 DEF Reached
      <4> QED
        BY <3>0, <3>6, <4>1 DEF People, RetryNow, Reload, Connected
    <3>7. CASE Faulty
      <4>1. ~ RedisDown
        BY <1>0, <1>3, RedisGoes DEF Asks
      <4>2. ~ RedisBack
        BY <2>1 DEF RedisBack, OutageIs
      <4> QED
        BY <1>0, <1>3, <2>3, <3>0, <3>7, <4>1, <4>2
           DEF Faulty, TicketFails, CommandFails, Cut, Restart, Torn, Revoke, InRoom, Connected
    <3> QED
      BY <3>3, <3>4, <3>5, <3>6, <3>7 DEF Next
  <2> QED
    BY <2>2, <2>3, StaysGreeted
<1> QED
  BY <1>2, <1>3, StaysWaiting

-----------------------------------------------------------------------------
(* The theorems.                                                             *)

\* The initial state.
LEMMA TabletInit == Init => TabletInv
<1> SUFFICES ASSUME Init PROVE TabletInv
  OBVIOUS
<1>0. table \in Tables /\ MaxRounds \in Nat /\ MaxFaults \in Nat /\ MaxAttempts \in Nat
  BY BoundsAssumption DEF Init, Tables, Rounds
<1>1. View(table) \in Views /\ View(table).chair = "chips"
  <2>1. View(table) \in Views
    BY <1>0, FramesSent
  <2>2. table.seated /\ table.chips
    BY DEF Init
  <2> QED
    BY <2>1, <2>2 DEF View
<1>2. down = <<>> /\ up = <<>> /\ <<>> \in Seq(Frames) /\ <<>> \in Seq({"accept", "decline"})
  BY DEF Init
<1>3. Shapes
  BY <1>0, <1>1, <1>2 DEF Init, Shapes, TypeOK, Tables, Playing, Fresh, None, Rounds
<1>4. WireFits /\ ViewFits /\ OutageTold
  BY DEF Init, WireFits, Connected, ViewFits, OutageTold, InRoom
<1>5. SeatShown
  BY <1>1, NothingOnItsWay DEF Init, SeatShown, Fresh
<1>6. AskFits /\ Reached
  BY DEF Init, AskFits, Marked, Playing, Reached
<1> QED
  BY <1>3, <1>4, <1>5, <1>6 DEF TabletInv

\* A step.
LEMMA TabletStep == TabletInv /\ [Next]_vars => TabletInv'
<1>1. ASSUME TabletInv, Next PROVE TabletInv'
  <2>1. Shapes'
    BY <1>1, ShapesKept DEF TabletInv
  <2>2. WireFits' /\ AskFits'
    BY <1>1, WireKept, AskKept DEF TabletInv
  <2>3. SeatShown' /\ ViewFits'
    BY <1>1, SeatShownKept, ViewKept DEF TabletInv
  <2>4. OutageTold' /\ Reached'
    BY <1>1, OutageKept, ReachedKept DEF TabletInv
  <2> QED
    BY <2>1, <2>2, <2>3, <2>4 DEF TabletInv
<1>2. ASSUME TabletInv, UNCHANGED vars PROVE TabletInv'
  <2> USE <1>2 DEF vars
  <2>1. Shapes' /\ WireFits' /\ SeatShown' /\ AskFits'
    BY DEF TabletInv, Shapes, TypeOK, WireFits, Connected, SeatShown, AskFits, Marked
  <2>2. ViewFits' /\ OutageTold' /\ Reached'
    BY DEF TabletInv, ViewFits, OutageTold, Banner, InRoom, Reached
  <2> QED
    BY <2>1, <2>2 DEF TabletInv
<1> QED
  BY <1>1, <1>2

\* The invariant of the tablet.
THEOREM TabletInvariance == Spec => []TabletInv
<1>1. Init => TabletInv
  BY TabletInit
<1>2. TabletInv /\ [Next]_vars => TabletInv'
  BY TabletStep
<1> QED
  BY <1>1, <1>2, PTL DEF Spec

\* Every variable keeps its type, and the numbers their bounds.
THEOREM TabletTypes == Spec => []TypeOK
<1>1. TabletInv => TypeOK
  BY DEF TabletInv, Shapes
<1> QED
  BY <1>1, TabletInvariance, PTL

\* CanAnswer: a page that has read everything shows the question that is waited for.
THEOREM QuestionAnswerable == Spec => []CanAnswer
<1>1. TabletInv => CanAnswer
  <2> SUFFICES ASSUME TabletInv, ask.pc = "waiting", Quiet, up = <<>>, ~ table.resume
               PROVE  page.asks /\ ~ Blocked /\ page.exit = "none"
    BY DEF CanAnswer
  <2>0. page \in Pages /\ table \in Tables
    BY DEF TabletInv, Shapes, TypeOK, Pages, Tables
  <2>1. wire = "greeted" /\ hook.sock = "open" /\ down = <<>>
    BY DEF Quiet
  <2>2. redis.up /\ table.seated /\ table.marker # 0
    BY DEF TabletInv, AskFits, Marked
  <2>3. page.asks /\ page.exit = "none"
    BY <2>1, NothingOnItsWay DEF TabletInv, Reached
  <2>4. page.view.marked /\ ~ page.view.resume
    <3>1. ComesTo(<<>>, page.view, Fitting(table))
      BY <2>1 DEF TabletInv, ViewFits
    <3> DEFINE v == page.view
               S == Fitting(table)
    <3>2. ComesTo(<<>>, v, S)
      BY <3>1
    <3> HIDE DEF v, S
    <3>3. v \in S
      BY <3>2, NothingOnItsWay
    <3> QED
      BY <2>0, <2>2, <3>3 DEF v, S, Fitting, View, Tables
  <2>5. ~ page.outage
    <3> DEFINE b == Banner
    <3>1. Clears(<<>>, b)
      BY <2>1, <2>2 DEF TabletInv, OutageTold, InRoom
    <3> HIDE DEF b
    <3>2. ~ b
      BY <3>1, NothingOnItsWay
    <3> QED
      BY <2>1, <3>2 DEF b, Banner
  <2> QED
    BY <2>3, <2>4, <2>5 DEF Blocked
<1> QED
  BY <1>1, TabletInvariance, PTL

-----------------------------------------------------------------------------
(* What is paid for.                                                         *)

\* Nothing has slipped, behind a step: no question and answer have crossed, and
\* Redis has kept its data.
Calm == slips' = {}

\* Nothing asks him: neither the page nor a frame on its way.
NoQuestion == ~ page.asks /\ Lacks(down, "prompt")

\* One answer at a time, and no question next to it.
OneAnswer ==
  up # <<>> => Len(up) = 1 /\ NoQuestion /\ wire \in {"room", "greeted", "closing"}

\* Who is asked has no chips.
BrokeWhileAsked ==
  ask.pc \in {"opening", "reading", "waiting", "late", "accepted"} => ~ table.chips

\* An answer that was yes leaves the page at the table.
AnswerStands == table.seated /\ up = <<"accept">> => page.exit = "none"

\* From the yes that the server has read until the chips are lost again, nothing
\* asks him, nothing sends him away and no question is remembered.
Paid ==
  table.seated /\ (table.chips \/ ask.pc = "accepted")
    => NoQuestion /\ up = <<>> /\ page.exit = "none" /\ prompt.round = 0 /\ hook.sock # "left"

PaidInv == OneAnswer /\ BrokeWhileAsked /\ AnswerStands /\ Paid

\* Chips come with a rebuy.
LEMMA ChipsComeByRebuy ==
  ASSUME Shapes, Calm, Next, table'.chips, ~ table.chips
  PROVE  ask.pc = "accepted"
<1>0. table \in Tables
  BY DEF Shapes, TypeOK, Tables
<1>1. CASE Hand
  <2> USE DEF Tables
  <2>1. CASE LoseChips
    BY <1>0, <2>1 DEF LoseChips
  <2>2. CASE OpenRound
    BY <1>0, <2>2 DEF OpenRound
  <2>3. CASE AskHim
    BY <1>0, <2>3 DEF AskHim
  <2>4. CASE Deadline
    BY <1>0, <2>4 DEF Deadline
  <2>5. CASE NoAnswer
    BY <1>0, <2>5 DEF NoAnswer
  <2>6. CASE Rebuy
    BY <1>0, <2>6 DEF Rebuy
  <2>7. CASE CloseRound
    BY <1>0, <2>7 DEF CloseRound
  <2>8. CASE Hold
    BY <1>0, <2>8 DEF Hold
  <2>9. CASE Resume
    BY <1>0, <2>9 DEF Resume
  <2>10. CASE Wake
    BY <1>0, <2>10 DEF Wake
  <2>11. CASE Unmark
    BY <1>0, <2>11 DEF Unmark
  <2>12. CASE FinishHand
    BY <1>0, <2>12 DEF FinishHand
  <2>13. CASE TournamentClosed
    BY <1>0, <2>13 DEF TournamentClosed
  <2> QED
    BY <1>1, <2>1, <2>2, <2>3, <2>4, <2>5, <2>6, <2>7, <2>8, <2>9, <2>10, <2>11, <2>12, <2>13 DEF Hand
<1>2. CASE Gateway
  BY <1>2 DEF Gateway, Keepalive, Admit, Greet, HandleRebuyResponse, server
<1>3. CASE Tablet
  BY <1>3 DEF Tablet, Connect, Timer, Silence, Closed, Receive, Leave, server
<1>4. CASE People
  BY <1>4 DEF People, RetryNow, Reload, Press, server
<1>5. CASE Faulty
  <2> USE DEF Tables, server, Calm
  <2>1. CASE TicketFails
    BY <1>0, <2>1 DEF TicketFails
  <2>2. CASE CommandFails
    BY <1>0, <2>2 DEF CommandFails
  <2>3. CASE RedisDown
    BY <1>0, <2>3 DEF RedisDown, OutageIs
  <2>4. CASE RedisBack
    BY <1>0, <2>4 DEF RedisBack, OutageIs
  <2>5. CASE Cut
    BY <1>0, <2>5 DEF Cut
  <2>6. CASE Restart
    BY <1>0, <2>6 DEF Restart
  <2>7. CASE Revoke
    BY <1>0, <2>7 DEF Revoke
  <2> QED
    BY <1>5, <2>1, <2>2, <2>3, <2>4, <2>5, <2>6, <2>7 DEF Faulty
<1> QED
  BY <1>1, <1>2, <1>3, <1>4, <1>5 DEF Next

\* Who is asked.
LEMMA BrokeKept ==
  ASSUME Shapes, Calm, BrokeWhileAsked, Next
  PROVE  BrokeWhileAsked'
<1>0. /\ table \in Tables /\ ask \in Asks
      /\ Playing.pc = "playing" /\ [Playing EXCEPT !.pc = "closing"].pc = "closing"
  BY DEF Shapes, TypeOK, Tables, Asks, Playing
<1> USE DEF BrokeWhileAsked
<1>1. CASE Hand
  <2> USE DEF Tables, Asks, Settle
  <2>1. CASE LoseChips
    BY <1>0, <2>1 DEF LoseChips
  <2>2. CASE OpenRound
    BY <1>0, <2>2 DEF OpenRound
  <2>3. CASE AskHim
    BY <1>0, <2>3 DEF AskHim
  <2>4. CASE Deadline
    BY <1>0, <2>4 DEF Deadline
  <2>5. CASE NoAnswer
    BY <1>0, <2>5 DEF NoAnswer
  <2>6. CASE Rebuy
    BY <1>0, <2>6 DEF Rebuy
  <2>7. CASE CloseRound
    BY <1>0, <2>7 DEF CloseRound
  <2>8. CASE Hold
    BY <1>0, <2>8 DEF Hold
  <2>9. CASE Resume
    BY <1>0, <2>9 DEF Resume
  <2>10. CASE Wake
    BY <1>0, <2>10 DEF Wake
  <2>11. CASE Unmark
    BY <1>0, <2>11 DEF Unmark
  <2>12. CASE FinishHand
    BY <1>0, <2>12 DEF FinishHand
  <2>13. CASE TournamentClosed
    BY <1>0, <2>13 DEF TournamentClosed
  <2> QED
    BY <1>1, <2>1, <2>2, <2>3, <2>4, <2>5, <2>6, <2>7, <2>8, <2>9, <2>10, <2>11, <2>12, <2>13 DEF Hand
<1>2. CASE Gateway
  <2> USE DEF Asks, server
  <2>1. CASE Keepalive
    BY <1>0, <2>1 DEF Keepalive
  <2>2. CASE Admit
    BY <1>0, <2>2 DEF Admit
  <2>3. CASE Greet
    BY <1>0, <2>3 DEF Greet
  <2>4. CASE HandleRebuyResponse
    BY <1>0, <2>4 DEF HandleRebuyResponse
  <2> QED
    BY <1>2, <2>1, <2>2, <2>3, <2>4 DEF Gateway
<1>3. CASE Tablet
  BY <1>3 DEF Tablet, Connect, Timer, Silence, Closed, Receive, Leave, server
<1>4. CASE People
  BY <1>4 DEF People, RetryNow, Reload, Press, server
<1>5. CASE Faulty
  <2> USE DEF Tables, Asks, Settle, server, Calm
  <2>1. CASE TicketFails
    BY <1>0, <2>1 DEF TicketFails
  <2>2. CASE CommandFails
    BY <1>0, <2>2 DEF CommandFails
  <2>3. CASE RedisDown
    BY <1>0, <2>3 DEF RedisDown, OutageIs
  <2>4. CASE RedisBack
    BY <1>0, <2>4 DEF RedisBack, OutageIs
  <2>5. CASE Cut
    BY <1>0, <2>5 DEF Cut
  <2>6. CASE Restart
    BY <1>0, <2>6 DEF Restart
  <2>7. CASE Revoke
    BY <1>0, <2>7 DEF Revoke
  <2> QED
    BY <1>5, <2>1, <2>2, <2>3, <2>4, <2>5, <2>6, <2>7 DEF Faulty
<1> QED
  BY <1>1, <1>2, <1>3, <1>4, <1>5 DEF Next

\* Four things happen to the answers on their way.
LEMMA AnswerChanges ==
  ASSUME Next
  PROVE  \/ UNCHANGED up \/ up' = <<>> \/ HandleRebuyResponse
         \/ \E answer \in {"accept", "decline"} : Press(answer)
BY DEF Next, Hand, LoseChips, OpenRound, AskHim, Deadline, NoAnswer, Rebuy, CloseRound, Hold,
       Resume, Wake, Unmark, FinishHand, TournamentClosed, Gateway, Keepalive, Admit, Greet,
       Tablet, Connect, Timer, Silence, Closed, Receive, Leave, People, RetryNow, Reload,
       Faulty, TicketFails, CommandFails, RedisDown, RedisBack, Cut, Restart, Revoke

\* An answer on its way keeps the page connected, or is lost.
LEMMA AnswerWire ==
  ASSUME WireFits, Next, UNCHANGED up, up # <<>>, wire \in {"room", "greeted", "closing"}
  PROVE  wire' \in {"room", "greeted", "closing"}
<1>1. CASE Hand
  BY <1>1 DEF Hand, LoseChips, OpenRound, AskHim, Deadline, NoAnswer, Rebuy, CloseRound, Hold,
       Resume, Wake, Unmark, FinishHand, TournamentClosed
<1>2. CASE Gateway
  <2>1. CASE Keepalive \/ Admit \/ HandleRebuyResponse
    BY <2>1 DEF Keepalive, Admit, HandleRebuyResponse
  <2>2. CASE Greet
    BY <2>2, GreetCases DEF Refused, Refuse, Greeted
  <2> QED
    BY <1>2, <2>1, <2>2 DEF Gateway
<1>3. CASE Tablet
  <2>1. ~ Connect
    BY DEF Connect, WireFits, Connected
  <2> QED
    BY <1>3, <2>1 DEF Tablet, Timer, Silence, Closed, Receive, Leave
<1>4. CASE People
  BY <1>4 DEF People, RetryNow, Reload, Press
<1>5. CASE Faulty
  <2>1. CASE TicketFails
    BY <2>1 DEF TicketFails, Torn
  <2>2. CASE CommandFails
    BY <2>2 DEF CommandFails, Torn
  <2>3. CASE RedisDown
    BY <2>3 DEF RedisDown, OutageIs, Torn
  <2>4. CASE RedisBack
    BY <2>4 DEF RedisBack, OutageIs, Torn
  <2>5. CASE Cut
    BY <2>5 DEF Cut, Torn
  <2>6. CASE Restart
    BY <2>6 DEF Restart, Torn
  <2>7. CASE Revoke
    BY <2>7 DEF Revoke, Torn
  <2> QED
    BY <1>5, <2>1, <2>2, <2>3, <2>4, <2>5, <2>6, <2>7 DEF Faulty
<1> QED
  BY <1>1, <1>2, <1>3, <1>4, <1>5 DEF Next

\* A frame that asks nothing.
LEMMA LacksSent ==
  ASSUME down \in Seq(Frames), Lacks(down, "prompt"), NEW f \in Frames, f.kind # "prompt", Send(<<f>>)
  PROVE  Lacks(down', "prompt")
<1>1. Lacks(down \o <<f>>, "prompt")
  BY LacksMore
<1> QED
  BY <1>1, SendsOne

\* Nothing asks him until the command does, or the gateway sends the question again.
LEMMA QuestionQuiet ==
  ASSUME Shapes, Next, NoQuestion, AskHim => UNCHANGED down, Greeted => Behind # <<Prompt>>
  PROVE  NoQuestion'
<1>0. /\ table \in Tables /\ table' \in Tables /\ down \in Seq(Frames) /\ page \in Pages
  BY TableTyped DEF Shapes, TypeOK, Tables, Pages
<1>1. /\ Render(table) \in Frames /\ Render(table') \in Frames
      /\ Gone \in Frames /\ Back \in Frames
      /\ [kind |-> "keepalive"] \in Frames /\ [kind |-> "closed"] \in Frames
      /\ Close(1000) \in Frames /\ Close(1008) \in Frames /\ Close(4001) \in Frames
  BY <1>0, FramesSent
<1>2. /\ Render(table).kind # "prompt" /\ Render(table').kind # "prompt"
      /\ Gone.kind # "prompt" /\ Back.kind # "prompt"
      /\ [kind |-> "keepalive"].kind # "prompt" /\ [kind |-> "closed"].kind # "prompt"
      /\ Close(1000).kind # "prompt" /\ Close(1008).kind # "prompt" /\ Close(4001).kind # "prompt"
  BY DEF Render, Gone, Back, Close
<1>3. ~ page.asks /\ Lacks(down, "prompt")
  BY DEF NoQuestion
<1>4. ASSUME NEW f \in Frames, f.kind # "prompt", Send(<<f>>) PROVE Lacks(down', "prompt")
  BY <1>0, <1>3, <1>4, LacksSent
<1>5. ASSUME NEW f \in Frames, NEW g \in Frames, f.kind # "prompt", g.kind # "prompt", Send(<<f, g>>)
      PROVE  Lacks(down', "prompt")
  <2>1. down \o <<f>> \in Seq(Frames) /\ Lacks(down \o <<f>>, "prompt")
    BY <1>0, <1>3, <1>5, AtTheEnd, LacksMore
  <2>2. Lacks((down \o <<f>>) \o <<g>>, "prompt")
    BY <1>5, <2>1, LacksMore
  <2> QED
    BY <1>0, <1>3, <1>5, <2>2, SendsTwo
<1>6. ASSUME NEW f \in Frames, f.kind # "prompt", down' = Append(down, f) PROVE Lacks(down', "prompt")
  <2>1. Append(down, f) = down \o <<f>>
    BY <1>0, AppendIsConcat
  <2>2. Lacks(down \o <<f>>, "prompt")
    BY <1>0, <1>3, <1>6, LacksMore
  <2> QED
    BY <1>6, <2>1, <2>2
<1>7. UNCHANGED down => Lacks(down', "prompt")
  BY <1>3
<1>8. down' = <<>> => Lacks(down', "prompt")
  BY NothingOnItsWay
<1>9. Lacks(down', "prompt")
  <2>1. CASE Hand
    <3>1. CASE UNCHANGED down
      BY <1>7, <3>1
    <3>2. CASE Broadcast
      BY <1>1, <1>2, <1>4, <3>2 DEF Broadcast
    <3>3. CASE Send(<<[kind |-> "closed"], Close(1000)>>)
      BY <1>1, <1>2, <1>5, <3>3
    <3> QED
      BY <2>1, <3>1, <3>2, <3>3
         DEF Hand, LoseChips, OpenRound, Deadline, NoAnswer, Rebuy, CloseRound, Hold, Resume, Wake,
             Unmark, FinishHand, TournamentClosed
  <2>2. CASE Gateway
    <3>1. CASE Keepalive
      BY <1>1, <1>2, <1>4, <3>1 DEF Keepalive
    <3>2. CASE Admit
      BY <1>1, <1>2, <1>6, <1>7, <3>2 DEF Admit, Refuse
    <3>3. CASE Greet
      <4>1. CASE Refused
        BY <1>1, <1>2, <1>6, <4>1 DEF Refused, Refuse
      <4>2. CASE Greeted
        <5> DEFINE q == down \o <<Render(table)>>
        <5>1. q \in Seq(Frames) /\ Lacks(q, "prompt")
          BY <1>0, <1>1, <1>2, <1>3, AtTheEnd, LacksMore
        <5>2. down' = q \o Behind
          BY <4>2 DEF Greeted
        <5> HIDE DEF q
        <5>3. Lacks(q \o <<Gone>>, "prompt") /\ q \o <<>> = q
          BY <1>1, <1>2, <5>1, LacksMore
        <5> QED
          BY <4>2, <5>1, <5>2, <5>3, BehindCases
      <4> QED
        BY <3>3, <4>1, <4>2, GreetCases
    <3>4. CASE HandleRebuyResponse
      BY <1>7, <3>4 DEF HandleRebuyResponse
    <3> QED
      BY <2>2, <3>1, <3>2, <3>3, <3>4 DEF Gateway
  <2>3. CASE Tablet
    <3>1. CASE Receive
      BY <1>0, <1>3, <3>1, LacksLess DEF Receive
    <3>2. CASE Closed \/ Leave
      BY <1>8, <3>2 DEF Closed, Leave
    <3>3. CASE Connect \/ Timer \/ Silence
      BY <1>7, <3>3 DEF Connect, Timer, Silence
    <3> QED
      BY <2>3, <3>1, <3>2, <3>3 DEF Tablet
  <2>4. CASE People
    BY <1>7, <1>8, <2>4 DEF People, RetryNow, Reload, Press
  <2>5. CASE Faulty
    <3>1. CASE RedisDown
      <4>1. Send(<<Gone>>)
        BY <3>1 DEF RedisDown, OutageIs, Gone
      <4> QED
        BY <4>1, <1>1, <1>2, <1>4
    <3>2. CASE RedisBack
      <4>1. Send(<<Back, Render(table)>>)
        BY <3>2 DEF RedisBack, OutageIs, Back
      <4> QED
        BY <4>1, <1>1, <1>2, <1>5
    <3>3. CASE CommandFails
      BY <1>1, <1>2, <1>4, <1>7, <3>3 DEF CommandFails, Broadcast
    <3>4. CASE Revoke
      BY <1>1, <1>2, <1>6, <1>7, <3>4 DEF Revoke
    <3>5. CASE Cut \/ Restart
      BY <1>8, <3>5 DEF Cut, Restart
    <3>6. CASE TicketFails
      BY <1>7, <3>6 DEF TicketFails
    <3> QED
      BY <2>5, <3>1, <3>2, <3>3, <3>4, <3>5, <3>6 DEF Faulty
  <2> QED
    BY <2>1, <2>2, <2>3, <2>4, <2>5 DEF Next
<1>10. ~ page'.asks
  <2>1. CASE Receive
    <3>1. down # <<>> /\ Head(down).kind # "prompt"
      BY <1>0, <1>3, <2>1, LacksLess DEF Receive
    <3> DEFINE p == Reader
               f == Head(down)
    <3>2. p \in Pages /\ ~ p.asks
      BY <1>0, <1>3 DEF Reader, Pages
    <3>3. page' = After(p, f)
      BY <2>1, ReceiveReads
    <3>4. f.kind # "prompt"
      BY <3>1
    <3> HIDE DEF p, f
    <3> QED
      BY <3>2, <3>3, <3>4 DEF After, Shown, Pages
  <2>2. CASE Reload
    BY <2>2 DEF Reload, Fresh
  <2>3. CASE \E answer \in {"accept", "decline"} : Press(answer)
    BY <1>3, <2>3 DEF Press
  <2>4. CASE UNCHANGED page
    BY <1>3, <2>4
  <2> QED
    BY <2>1, <2>2, <2>3, <2>4, PageChanges
<1> QED
  BY <1>9, <1>10 DEF NoQuestion

\* Nothing that he is sent while he has his seat takes the page away.
LEMMA ExitQuiet ==
  ASSUME Shapes, SeatShown, Next, table.seated, page.exit = "none", ~ page.asks
  PROVE  page'.exit = "none"
<1>0. page \in Pages /\ down \in Seq(Frames)
  BY DEF Shapes, TypeOK, Pages
<1>1. CASE Receive
  <2>1. down # <<>>
    BY <1>1 DEF Receive
  <2>2. Harmless(Head(down))
    BY <1>0, <2>1, HarmlessLess DEF SeatShown, AllHarmless
  <2> DEFINE p == Reader
             f == Head(down)
  <2>3. p \in Pages /\ p.exit = "none"
    BY <1>0 DEF Reader, Pages
  <2>4. page' = After(p, f) /\ Harmless(f)
    BY <1>1, <2>2, ReceiveReads
  <2> HIDE DEF p, f
  <2> QED
    BY <2>3, <2>4 DEF After, Shown, Asked, Pages, Harmless
<1>2. CASE Reload
  BY <1>2 DEF Reload, Fresh
<1>3. CASE \E answer \in {"accept", "decline"} : Press(answer)
  BY <1>3 DEF Press
<1>4. CASE UNCHANGED page
  BY <1>4
<1> QED
  BY <1>1, <1>2, <1>3, <1>4, PageChanges

\* A question sent while an answer is on its way.
LEMMA PromptCrosses ==
  ASSUME NEW q \in Seq(Frames), down' = q \o <<Prompt>>, up' # <<>>, Crosses
  PROVE  slips' # {}
<1>1. Prompt \in Frames
  BY DEF Frames, Prompt
<1>2. /\ down' \in Seq(Frames) /\ Len(down') = Len(q) + 1 /\ Len(q) \in Nat
      /\ down'[Len(q) + 1] = Prompt
  BY <1>1, AtTheEnd
<1>3. Len(q) + 1 \in DOMAIN down'
  BY <1>2
<1> QED
  BY <1>2, <1>3 DEF Crosses

\* The answers on their way.
LEMMA OneAnswerKept ==
  ASSUME TabletInv, Calm, OneAnswer, Next
  PROVE  OneAnswer'
<1> SUFFICES ASSUME up' # <<>>
             PROVE  Len(up') = 1 /\ NoQuestion' /\ wire' \in {"room", "greeted", "closing"}
  BY DEF OneAnswer
<1>0. /\ Shapes /\ WireFits /\ up \in Seq({"accept", "decline"}) /\ down \in Seq(Frames)
      /\ page \in Pages
  BY DEF TabletInv, Shapes, TypeOK, Pages
<1>1. CASE UNCHANGED up
  <2>1. Len(up) = 1 /\ NoQuestion /\ wire \in {"room", "greeted", "closing"} /\ up # <<>>
    BY <1>1 DEF OneAnswer
  <2>2. AskHim => UNCHANGED down
    <3> SUFFICES ASSUME AskHim PROVE UNCHANGED down
      OBVIOUS
    <3>1. Crosses /\ (UNCHANGED down \/ Send(<<Prompt>>))
      BY DEF AskHim
    <3>2. down' # down \o <<Prompt>>
      BY <1>0, <3>1, PromptCrosses DEF Calm
    <3> QED
      BY <3>1, <3>2 DEF Send
  <2>3. Greeted => Behind # <<Prompt>>
    <3> SUFFICES ASSUME Greeted, Behind = <<Prompt>> PROVE FALSE
      OBVIOUS
    <3>1. down \o <<Render(table)>> \in Seq(Frames)
      <4>1. table \in Tables
        BY <1>0 DEF Shapes, TypeOK, Tables
      <4>2. Render(table) \in Frames
        BY <4>1, FramesSent
      <4> QED
        BY <1>0, <4>2, AtTheEnd
    <3>2. down' = (down \o <<Render(table)>>) \o <<Prompt>>
      BY DEF Greeted
    <3>3. Crosses
      BY DEF Greeted
    <3> QED
      BY <3>1, <3>2, <3>3, PromptCrosses DEF Calm
  <2> QED
    BY <1>0, <1>1, <2>1, <2>2, <2>3, QuestionQuiet, AnswerWire
<1>2. CASE HandleRebuyResponse
  <2>1. up # <<>> /\ up' = Tail(up)
    BY <1>2 DEF HandleRebuyResponse
  <2>2. Len(up) = 1
    BY <2>1 DEF OneAnswer
  <2>3. Tail(up) = <<>>
    BY <1>0, <2>1, <2>2
  <2> QED
    BY <2>1, <2>3
<1>3. ASSUME NEW answer \in {"accept", "decline"}, Press(answer)
      PROVE  Len(up') = 1 /\ NoQuestion' /\ wire' \in {"room", "greeted", "closing"}
  <2>1. page.asks /\ UNCHANGED <<wire, down>> /\ ~ page'.asks
    BY <1>0, <1>3 DEF Press, Pages
  <2>2. up = <<>>
    BY <2>1 DEF OneAnswer, NoQuestion
  <2>3. InRoom /\ up' = Append(up, answer)
    BY <1>3, <2>2 DEF Press
  <2>4. \A i \in DOMAIN down : down[i] # Prompt
    BY <1>3, <2>1 DEF Press, Crosses, Calm
  <2>5. Lacks(down, "prompt")
    <3>1. \A f \in Frames : f.kind = "prompt" => f = Prompt
      BY DEF Frames, Prompt
    <3> QED
      BY <1>0, <2>4, <3>1 DEF Lacks
  <2>6. wire \in {"room", "greeted"}
    BY <2>3 DEF InRoom
  <2>7. Len(up') = 1
    BY <2>2, <2>3
  <2> QED
    BY <2>1, <2>5, <2>6, <2>7 DEF NoQuestion
<1> QED
  BY <1>1, <1>2, <1>3, AnswerChanges

\* A yes on its way.
LEMMA AnswerStandsKept ==
  ASSUME TabletInv, Calm, OneAnswer, AnswerStands, Next
  PROVE  AnswerStands'
<1> SUFFICES ASSUME table'.seated, up' = <<"accept">> PROVE page'.exit = "none"
  BY DEF AnswerStands
<1>0. /\ Shapes /\ SeatShown /\ up \in Seq({"accept", "decline"}) /\ table.seated /\ page \in Pages
  BY SeatLost DEF TabletInv, Shapes, TypeOK, Pages
<1>1. CASE UNCHANGED up
  <2>1. up = <<"accept">> /\ up # <<>>
    BY <1>1
  <2>2. page.exit = "none" /\ ~ page.asks
    BY <1>0, <2>1 DEF AnswerStands, OneAnswer, NoQuestion
  <2> QED
    BY <1>0, <2>2, ExitQuiet
<1>2. CASE HandleRebuyResponse
  <2>1. up # <<>> /\ up' = Tail(up)
    BY <1>2 DEF HandleRebuyResponse
  <2>2. Len(up) = 1
    BY <2>1 DEF OneAnswer
  <2>3. Len(Tail(up)) = 0
    BY <1>0, <2>1, <2>2
  <2>4. Len(up') = 1
    OBVIOUS
  <2> QED
    BY <2>1, <2>3, <2>4
<1>3. ASSUME NEW answer \in {"accept", "decline"}, Press(answer) PROVE page'.exit = "none"
  <2>1. page.asks /\ page.exit = "none"
    BY <1>3 DEF Press
  <2>2. up = <<>>
    BY <2>1 DEF OneAnswer, NoQuestion
  <2>3. InRoom /\ up' = Append(up, answer)
    BY <1>3, <2>2 DEF Press
  <2>4. answer = "accept"
    BY <2>2, <2>3
  <2> QED
    BY <1>0, <1>3, <2>1, <2>4 DEF Press, Pages
<1> QED
  BY <1>1, <1>2, <1>3, AnswerChanges

\* A yes that the server reads.
LEMMA Accepted ==
  ASSUME Shapes, Next, ask.pc # "accepted", ask'.pc = "accepted"
  PROVE  HandleRebuyResponse /\ up # <<>> /\ Head(up) = "accept" /\ prompt' = None
<1>0. /\ ask \in Asks
      /\ Playing.pc = "playing" /\ [Playing EXCEPT !.pc = "closing"].pc = "closing"
      /\ \A g : [Playing EXCEPT !.pc = "opening", !.gen = g].pc = "opening"
  BY DEF Shapes, TypeOK, Asks, Playing
<1>1. CASE Hand
  <2> USE DEF Asks, Settle
  <2>1. CASE LoseChips
    BY <1>0, <2>1 DEF LoseChips
  <2>2. CASE OpenRound
    BY <1>0, <2>2 DEF OpenRound
  <2>3. CASE AskHim
    BY <1>0, <2>3 DEF AskHim
  <2>4. CASE Deadline
    BY <1>0, <2>4 DEF Deadline
  <2>5. CASE NoAnswer
    BY <1>0, <2>5 DEF NoAnswer
  <2>6. CASE Rebuy
    BY <1>0, <2>6 DEF Rebuy
  <2>7. CASE CloseRound
    BY <1>0, <2>7 DEF CloseRound
  <2>8. CASE Hold
    BY <1>0, <2>8 DEF Hold
  <2>9. CASE Resume
    BY <1>0, <2>9 DEF Resume
  <2>10. CASE Wake
    BY <1>0, <2>10 DEF Wake
  <2>11. CASE Unmark
    BY <1>0, <2>11 DEF Unmark
  <2>12. CASE FinishHand
    BY <1>0, <2>12 DEF FinishHand
  <2>13. CASE TournamentClosed
    BY <1>0, <2>13 DEF TournamentClosed
  <2> QED
    BY <1>1, <2>1, <2>2, <2>3, <2>4, <2>5, <2>6, <2>7, <2>8, <2>9, <2>10, <2>11, <2>12, <2>13 DEF Hand
<1>2. CASE Gateway
  <2> USE DEF Asks, server
  <2>1. CASE Keepalive
    BY <1>0, <2>1 DEF Keepalive
  <2>2. CASE Admit
    BY <1>0, <2>2 DEF Admit
  <2>3. CASE Greet
    BY <1>0, <2>3 DEF Greet
  <2>4. CASE HandleRebuyResponse
    BY <1>0, <2>4 DEF HandleRebuyResponse
  <2> QED
    BY <1>2, <2>1, <2>2, <2>3, <2>4 DEF Gateway
<1>3. CASE Tablet
  BY <1>3 DEF Tablet, Connect, Timer, Silence, Closed, Receive, Leave, server
<1>4. CASE People
  BY <1>4 DEF People, RetryNow, Reload, Press, server
<1>5. CASE Faulty
  <2> USE DEF Asks, Settle, server
  <2>1. CASE TicketFails
    BY <1>0, <2>1 DEF TicketFails
  <2>2. CASE CommandFails
    BY <1>0, <2>2 DEF CommandFails
  <2>3. CASE RedisDown
    BY <1>0, <2>3 DEF RedisDown, OutageIs
  <2>4. CASE RedisBack
    BY <1>0, <2>4 DEF RedisBack, OutageIs
  <2>5. CASE Cut
    BY <1>0, <2>5 DEF Cut
  <2>6. CASE Restart
    BY <1>0, <2>6 DEF Restart
  <2>7. CASE Revoke
    BY <1>0, <2>7 DEF Revoke
  <2> QED
    BY <1>5, <2>1, <2>2, <2>3, <2>4, <2>5, <2>6, <2>7 DEF Faulty
<1> QED
  BY <1>1, <1>2, <1>3, <1>4, <1>5 DEF Next

\* Questions are remembered when they are sent.
LEMMA PromptForgotten ==
  ASSUME Next, prompt.round = 0, ~ AskHim
  PROVE  prompt'.round = 0
<1>0. None.round = 0
  BY DEF None
<1>1. CASE Hand
  BY <1>0, <1>1 DEF Hand, LoseChips, OpenRound, Deadline, NoAnswer, Rebuy, CloseRound, Hold, Resume,
     Wake, Unmark, FinishHand, TournamentClosed
<1>2. CASE Gateway
  BY <1>0, <1>2 DEF Gateway, Keepalive, Admit, Greet, HandleRebuyResponse, server
<1>3. CASE Tablet
  BY <1>3 DEF Tablet, Connect, Timer, Silence, Closed, Receive, Leave, server
<1>4. CASE People
  BY <1>4 DEF People, RetryNow, Reload, Press, server
<1>5. CASE Faulty
  <2>1. CASE TicketFails
    BY <1>0, <2>1 DEF TicketFails, server
  <2>2. CASE CommandFails
    BY <1>0, <2>2 DEF CommandFails, server
  <2>3. CASE RedisDown
    BY <1>0, <2>3 DEF RedisDown, OutageIs, server
  <2>4. CASE RedisBack
    BY <1>0, <2>4 DEF RedisBack, OutageIs, server
  <2>5. CASE Cut
    BY <1>0, <2>5 DEF Cut, server
  <2>6. CASE Restart
    BY <1>0, <2>6 DEF Restart, server
  <2>7. CASE Revoke
    BY <1>0, <2>7 DEF Revoke, server
  <2> QED
    BY <1>5, <2>1, <2>2, <2>3, <2>4, <2>5, <2>6, <2>7 DEF Faulty
<1> QED
  BY <1>1, <1>2, <1>3, <1>4, <1>5 DEF Next

\* A page goes back to the waiting page by Leave.
LEMMA LeavesOnly ==
  ASSUME Shapes, Next, hook.sock # "left", ~ Leave
  PROVE  hook'.sock # "left"
<1>0. hook \in Hooks
  BY DEF Shapes, TypeOK, Hooks
<1> USE <1>0 DEF Hooks
<1>1. CASE Hand
  BY <1>1 DEF Hand, LoseChips, OpenRound, AskHim, Deadline, NoAnswer, Rebuy, CloseRound, Hold,
       Resume, Wake, Unmark, FinishHand, TournamentClosed
<1>2. CASE Gateway
  BY <1>2 DEF Gateway, Keepalive, Admit, Greet, HandleRebuyResponse
<1>3. CASE Tablet
  <2> USE DEF To, ScheduleRetry
  <2>1. CASE Connect
    BY <2>1 DEF Connect, server
  <2>2. CASE Timer
    BY <2>2 DEF Timer
  <2>3. CASE Silence
    BY <2>3 DEF Silence
  <2>4. CASE Closed
    BY <2>4 DEF Closed
  <2>5. CASE Receive
    BY <2>5 DEF Receive
  <2> QED
    BY <1>3, <2>1, <2>2, <2>3, <2>4, <2>5 DEF Tablet
<1>4. CASE People
  BY <1>4 DEF People, RetryNow, Reload, Press, To
<1>5. CASE Faulty
  <2>1. CASE TicketFails
    BY <2>1 DEF TicketFails, To, ScheduleRetry
  <2>2. CASE CommandFails
    BY <2>2 DEF CommandFails, To, ScheduleRetry
  <2>3. CASE RedisDown
    BY <2>3 DEF RedisDown, OutageIs, To, ScheduleRetry
  <2>4. CASE RedisBack
    BY <2>4 DEF RedisBack, OutageIs, To, ScheduleRetry
  <2>5. CASE Cut
    BY <2>5 DEF Cut, To, ScheduleRetry
  <2>6. CASE Restart
    BY <2>6 DEF Restart, To, ScheduleRetry
  <2>7. CASE Revoke
    BY <2>7 DEF Revoke, To, ScheduleRetry
  <2> QED
    BY <1>5, <2>1, <2>2, <2>3, <2>4, <2>5, <2>6, <2>7 DEF Faulty
<1> QED
  BY <1>1, <1>2, <1>3, <1>4, <1>5 DEF Next

\* What is paid for.
LEMMA PaidKept ==
  ASSUME TabletInv, Calm, PaidInv, Next
  PROVE  Paid'
<1> SUFFICES ASSUME table'.seated, table'.chips \/ ask'.pc = "accepted"
             PROVE  NoQuestion' /\ up' = <<>> /\ page'.exit = "none" /\ prompt'.round = 0
                    /\ hook'.sock # "left"
  BY DEF Paid
<1>0. /\ Shapes /\ SeatShown /\ WireFits /\ table.seated
      /\ up \in Seq({"accept", "decline"}) /\ hook \in Hooks
      /\ table \in Tables /\ table.marker \in Nat
  BY SeatLost, BoundsAssumption DEF TabletInv, Shapes, TypeOK, Hooks, Tables, Rounds
<1>1. CASE table.chips \/ ask.pc = "accepted"
  <2>1. NoQuestion /\ up = <<>> /\ page.exit = "none" /\ prompt.round = 0 /\ hook.sock # "left"
    BY <1>0, <1>1 DEF PaidInv, Paid
  <2>2. ~ AskHim
    BY <1>1 DEF AskHim, PaidInv, BrokeWhileAsked
  <2>3. Behind # <<Prompt>>
    BY <1>0, <2>1, BehindCases
  <2>4. ~ page.asks
    BY <2>1 DEF NoQuestion
  <2>5. NoQuestion'
    BY <1>0, <2>1, <2>2, <2>3, QuestionQuiet
  <2>6. up' = <<>>
    BY <2>1, <2>4, AnswerChanges DEF HandleRebuyResponse, Press
  <2>7. page'.exit = "none"
    BY <1>0, <2>1, <2>4, ExitQuiet
  <2>8. prompt'.round = 0
    BY <2>1, <2>2, PromptForgotten
  <2>9. ~ Leave
    BY <1>0, <2>1 DEF Leave, SeatShown
  <2>10. hook'.sock # "left"
    BY <1>0, <2>1, <2>9, LeavesOnly
  <2> QED
    BY <2>5, <2>6, <2>7, <2>8, <2>10
<1>2. CASE ~ table.chips /\ ask.pc # "accepted"
  <2>1. ask'.pc = "accepted"
    BY <1>0, <1>2, ChipsComeByRebuy
  <2>2. HandleRebuyResponse /\ up # <<>> /\ Head(up) = "accept" /\ prompt' = None
    BY <1>0, <1>2, <2>1, Accepted
  <2>3. Len(up) = 1 /\ NoQuestion
    BY <2>2 DEF PaidInv, OneAnswer
  <2>4. up = <<"accept">> /\ Tail(up) = <<>>
    <3>1. up[1] = "accept" /\ Len(<<"accept">>) = 1 /\ <<"accept">>[1] = "accept"
      BY <1>0, <2>2
    <3>2. <<"accept">> \in Seq({"accept", "decline"})
      OBVIOUS
    <3>3. up = <<"accept">>
      BY <1>0, <2>3, <3>1, <3>2, SeqEqual
    <3> QED
      BY <1>0, <2>2, <2>3, <3>3
  <2>5. page.exit = "none"
    BY <1>0, <2>4 DEF PaidInv, AnswerStands
  <2>6. UNCHANGED <<down, page, hook>> /\ up' = Tail(up) /\ InRoom
    BY <2>2 DEF HandleRebuyResponse
  <2>7. hook.sock # "left"
    BY <1>0, <2>6 DEF WireFits, Connected, InRoom
  <2>8. NoQuestion'
    BY <2>3, <2>6 DEF NoQuestion
  <2>9. prompt'.round = 0
    BY <2>2 DEF None
  <2> QED
    BY <2>4, <2>5, <2>6, <2>7, <2>8, <2>9
<1> QED
  BY <1>1, <1>2

\* The initial state, and a step.
LEMMA PaidInit == Init => PaidInv
BY NothingOnItsWay DEF Init, PaidInv, OneAnswer, BrokeWhileAsked, AnswerStands, Paid, NoQuestion,
   Playing, Fresh, None

\* PaidInv is kept by every step, with the help of TabletInv, as long as nothing
\* has slipped.
LEMMA PaidStep == TabletInv /\ (slips = {} => PaidInv) /\ [Next]_vars => (slips' = {} => PaidInv')
<1>1. ASSUME TabletInv, slips = {} => PaidInv, Next, slips' = {} PROVE PaidInv'
  <2>0. Calm /\ PaidInv
    BY <1>1, SlipsStay DEF Calm
  <2>1. OneAnswer' /\ AnswerStands'
    BY <1>1, <2>0, OneAnswerKept, AnswerStandsKept DEF PaidInv
  <2>2. BrokeWhileAsked' /\ Paid'
    BY <1>1, <2>0, BrokeKept, PaidKept DEF PaidInv, TabletInv
  <2> QED
    BY <2>1, <2>2 DEF PaidInv
<1>2. ASSUME slips = {} => PaidInv, UNCHANGED vars, slips' = {} PROVE PaidInv'
  BY <1>2 DEF vars, PaidInv, OneAnswer, BrokeWhileAsked, AnswerStands, Paid, NoQuestion
<1> QED
  BY <1>1, <1>2

\* PageFitsSeat: until a question and an answer cross or the table is rebuilt from
\* a checkpoint, a player with chips has his table on the screen.
THEOREM SeatOnScreen == Spec => []PageFitsSeat
<1>1. Init => (slips = {} => PaidInv)
  BY PaidInit
<1>2. TabletInv /\ (slips = {} => PaidInv) /\ [Next]_vars => (slips = {} => PaidInv)'
  BY PaidStep
<1>3. (slips = {} => PaidInv) => PageFitsSeat
  BY DEF PaidInv, Paid, NoQuestion, PageFitsSeat
<1> QED
  BY <1>1, <1>2, <1>3, TabletInvariance, PTL DEF Spec

=============================================================================
