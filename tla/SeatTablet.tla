----------------------------- MODULE SeatTablet -----------------------------
(* One seat's tablet and the rebuy question.  The hook useTableSocket holds  *)
(* the connection, the page SeatGameClient shows what came over it, the      *)
(* gateway greets a new socket and remembers the prompt it sent, and the     *)
(* command at the end of the hand (DealerService.askRebuys,                  *)
(* PlaysyncService.processRebuy) waits for an answer that only this page can *)
(* give.                                                                     *)
(*                                                                           *)
(* Both directions of the connection are queues: the page is behind the      *)
(* server, and a connection may be cut, with what is on its way, before      *)
(* either side knows.  The rest of the table is HandEnd's; of the other      *)
(* players of a round only that they may stop it is left.                    *)
EXTENDS Naturals, Sequences

CONSTANTS
  MaxAttempts,  \* MAX_ATTEMPTS of reconnect-policy
  MaxRounds,    \* bound: rounds of questions
  MaxFrames,    \* bound: frames that the page is behind
  MaxFaults     \* bound: cuts, failed requests and commands, losses of Redis, restarts,
                \* dead lines, revocations

ASSUME BoundsAssumption == /\ {MaxAttempts, MaxRounds, MaxFrames, MaxFaults} \subseteq Nat
                           /\ MaxAttempts > 0

VARIABLES
  table,    \* Redis: his seat, chips and marks in the snapshot
  ask,      \* the command at the end of the hand
  round,    \* rounds of questions so far; a round's number is its deadline
  redis,    \* RedisOutage
  prompt,   \* pendingRebuyPrompts: the question last sent to him
  current,  \* database: the seat token is the current one
  wire,     \* the gateway's side of the newest socket
  down, up, \* frames on their way to the page, answers on their way to the server
  hook,     \* useTableSocket
  page,     \* SeatGameClient
  faults,
  slips     \* history: "crossed", a question and an answer have been under way at once;
            \* "rebuilt", the table was built again from the last checkpoint

vars == <<table, ask, round, redis, prompt, current, wire, down, up, hook, page, faults, slips>>

server == <<table, ask, round, redis, prompt, current>>

Rounds == 0 .. MaxRounds            \* 0: no marker, no question
None   == [round |-> 0, gen |-> 0]

\* what a snapshot tells this page: his chair, whether it says that he is asked,
\* whether the table waits for the dealer
Views == [chair : {"empty", "broke", "chips"}, marked : BOOLEAN, resume : BOOLEAN]

View(t) == [chair  |-> IF ~ t.seated THEN "empty" ELSE IF t.chips THEN "chips" ELSE "broke",
            marked |-> t.seated /\ t.marker # 0, resume |-> t.resume]

Frames == [kind : {"render"}, view : Views] \union [kind : {"prompt", "keepalive", "closed"}]
            \union [kind : {"outage"}, isDown : BOOLEAN] \union [kind : {"close"}, code : {1000, 1008, 4001}]

Render(t)   == [kind |-> "render", view |-> View(t)]
Prompt      == [kind |-> "prompt"]
OutageIs(b) == [kind |-> "outage", isDown |-> b]
Close(code) == [kind |-> "close", code |-> code]

TypeOK ==
  /\ table \in [seated : BOOLEAN, chips : BOOLEAN, marker : Rounds, resume : BOOLEAN]
  /\ ask \in [pc : {"playing", "opening", "reading", "waiting", "late", "accepted", "settled",
                    "holding", "held", "woken", "unmark", "closing"},
              again : BOOLEAN, gen : 0 .. MaxFaults]
  /\ round \in Rounds
  /\ redis \in [up : BOOLEAN, gen : 0 .. MaxFaults]
  /\ prompt \in [round : Rounds, gen : 0 .. MaxFaults]
  /\ current \in BOOLEAN
  /\ wire \in {"none", "knocking", "room", "greeted", "closing", "cut"}
  /\ down \in Seq(Frames) /\ up \in Seq({"accept", "decline"})
  /\ hook \in [sock : {"ticket", "joining", "open", "retry", "gaveUp", "revoked", "over",
                       "dead", "left"},
               attempt : 0 .. MaxAttempts + 1]
  /\ page \in [view : Views, asks : BOOLEAN, saw : BOOLEAN, outage : BOOLEAN, closed : BOOLEAN,
               exit : {"none", "eliminated", "seat-released"}]
  /\ faults \in 0 .. MaxFaults
  /\ slips \subseteq {"crossed", "rebuilt"}

Playing == [pc |-> "playing", again |-> FALSE, gen |-> 0]
Fresh   == [view |-> View(table), asks |-> FALSE, saw |-> FALSE, outage |-> FALSE,
            closed |-> FALSE, exit |-> "none"]

Init ==
  /\ table = [seated |-> TRUE, chips |-> TRUE, marker |-> 0, resume |-> FALSE]
  /\ ask = Playing /\ round = 0
  /\ redis = [up |-> TRUE, gen |-> 0]
  /\ prompt = None /\ current = TRUE
  /\ wire = "none" /\ down = <<>> /\ up = <<>>
  /\ hook = [sock |-> "ticket", attempt |-> 0]
  /\ page = Fresh
  /\ faults = 0 /\ slips = {}

Fault == faults < MaxFaults /\ faults' = faults + 1

-----------------------------------------------------------------------------
(* What the server sends.                                                    *)

InRoom == wire \in {"room", "greeted"}      \* in tableSessions, readyState OPEN

\* broadcastToTable, sendToTableUser
Send(frames) ==
  /\ down' = IF InRoom THEN down \o frames ELSE down
  /\ Len(down') <= MaxFrames

Broadcast == Send(<<Render(table')>>)

\* the sweep's keepalive matters to a socket that has had no frame yet
Keepalive ==
  /\ wire = "room" /\ down = <<>> /\ hook.sock = "joining"
  /\ Send(<<[kind |-> "keepalive"]>>)
  /\ UNCHANGED <<server, wire, up, hook, page, faults, slips>>

\* a question to the page and an answer from it are under way at once: each is
\* about another question, and neither frame says which
Crosses ==
  slips' = IF up' # <<>> /\ \E i \in DOMAIN down' : down'[i] = Prompt
           THEN slips \union {"crossed"} ELSE slips

Refuse(code) == wire' = "closing" /\ down' = Append(down, Close(code))

\* handleConnection up to addToMap: without the seat no socket
\* (assertIdentityCurrent, assertTableAccess)
Admit ==
  /\ wire = "knocking"
  /\ \/ /\ current /\ table.seated /\ redis.up
        /\ wire' = "room" /\ UNCHANGED <<down, faults>>
     \/ Refuse(4001) /\ ~ current /\ UNCHANGED faults
     \/ Refuse(1008) /\ current /\ ~ (table.seated /\ redis.up) /\ UNCHANGED faults
     \/ Refuse(1008) /\ Fault
  /\ UNCHANGED <<server, up, hook, page, slips>>

\* mutant: a new socket only gets the table
NotResent == <<>>

\* resendPendingRebuyPrompt: the question is open, is this round's, and somebody
\* still waits for the answer
Resent ==
  IF table.marker # 0 /\ prompt.round >= table.marker /\ prompt.gen = redis.gen
  THEN <<Prompt>> ELSE <<>>

\* handleConnection behind addToMap: closeIfStale, then the snapshot, the outage
\* or the question; an error closes the socket
Greet ==
  /\ wire = "room"
  /\ \/ Refuse(4001) /\ ~ current /\ UNCHANGED faults
     \/ Refuse(1008) /\ IF redis.up THEN Fault ELSE UNCHANGED faults
     \/ /\ current /\ UNCHANGED faults
        /\ down' = down \o <<Render(table)>>
                     \o (IF ~ redis.up THEN <<OutageIs(TRUE)>>
                         ELSE IF table.seated THEN Resent ELSE <<>>)
        /\ Len(down') <= MaxFrames
        /\ wire' = "greeted"
  /\ UNCHANGED <<server, up, hook, page>>
  /\ Crosses

\* mutant: the question stays remembered when it is answered
KeepPrompt ==
  /\ up # <<>> /\ InRoom
  /\ up' = Tail(up)
  /\ ask' = IF ~ redis.up \/ ask.pc \notin {"waiting", "late"} THEN ask
            ELSE IF Head(up) = "accept" THEN [ask EXCEPT !.pc = "accepted"]
            ELSE [ask EXCEPT !.pc = "settled", !.again = FALSE]
  /\ UNCHANGED <<table, round, redis, prompt, current, wire, down, hook, page, faults, slips>>

\* handleRebuyResponse: refused during an outage; nobody may be waiting
HandleRebuyResponse ==
  /\ up # <<>> /\ InRoom
  /\ up' = Tail(up)
  /\ IF ~ redis.up THEN UNCHANGED <<ask, prompt>>
     ELSE /\ prompt' = None
          /\ ask' = IF ask.pc \notin {"waiting", "late"} THEN ask
                    ELSE IF Head(up) = "accept" THEN [ask EXCEPT !.pc = "accepted"]
                    ELSE [ask EXCEPT !.pc = "settled", !.again = FALSE]
  /\ UNCHANGED <<table, round, redis, current, wire, down, hook, page, faults, slips>>

-----------------------------------------------------------------------------
(* The end of the hand.                                                      *)

\* he has lost everything: he is asked while registration is open
LoseChips ==
  /\ ask.pc = "playing" /\ redis.up
  /\ table.seated /\ table.chips /\ round < MaxRounds
  /\ table' = [table EXCEPT !.chips = FALSE]
  /\ \/ ask' = [Playing EXCEPT !.pc = "opening", !.gen = redis.gen]
     \/ ask' = [Playing EXCEPT !.pc = "closing"]
  /\ UNCHANGED <<round, redis, prompt, current, wire, down, up, hook, page, faults, slips>>

Settle(again) == ask' = [ask EXCEPT !.pc = "settled", !.again = again]

\* markRebuyPending
OpenRound ==
  /\ ask.pc = "opening"
  /\ \/ /\ redis.up
        /\ round' = round + 1
        /\ table' = [table EXCEPT !.marker = round']
        /\ ask' = [ask EXCEPT !.pc = "reading"]
        /\ Broadcast
     \/ ~ redis.up /\ Settle(TRUE) /\ UNCHANGED <<table, round, down>>
  /\ UNCHANGED <<redis, prompt, current, wire, up, hook, page, faults, slips>>

\* processRebuy up to the question: too few points, a failing database, an outage
\* since the round began, or rebuy.request.sent
AskHim ==
  /\ ask.pc = "reading"
  /\ \/ \E again \in BOOLEAN : Settle(again) /\ UNCHANGED <<prompt, down>>
     \/ /\ redis.up /\ redis.gen = ask.gen
        /\ ask' = [ask EXCEPT !.pc = "waiting"]
        /\ prompt' = [round |-> round, gen |-> redis.gen]
        /\ Send(<<Prompt>>)
  /\ UNCHANGED <<table, round, redis, current, wire, up, hook, page, faults>>
  /\ Crosses

\* the fifteen seconds, then the ping to the dealer
Deadline ==
  /\ ask.pc = "waiting"
  /\ ask' = [ask EXCEPT !.pc = "late"]
  /\ prompt' = None         \* a question past its deadline is not sent again
  /\ UNCHANGED <<table, round, redis, current, wire, down, up, hook, page, faults, slips>>

\* the dealer answers: a refusal; he does not, or the line goes dead: no answer
NoAnswer ==
  /\ \/ ask.pc = "late" /\ Settle(FALSE) /\ UNCHANGED faults
     \/ ask.pc \in {"waiting", "late"} /\ Settle(TRUE) /\ Fault
  /\ UNCHANGED <<table, round, redis, prompt, current, wire, down, up, hook, page, slips>>

\* chips and money, or neither; the display of the table is a read of its own
Rebuy ==
  /\ ask.pc = "accepted"
  /\ \/ /\ redis.up /\ redis.gen = ask.gen
        /\ table' = [table EXCEPT !.chips = TRUE]
        /\ Settle(FALSE)
        /\ (Broadcast /\ UNCHANGED faults) \/ (Fault /\ UNCHANGED down)
     \/ \E again \in BOOLEAN : Settle(again) /\ UNCHANGED <<table, down, faults>>
  /\ UNCHANGED <<round, redis, prompt, current, wire, up, hook, page, slips>>

\* all players of the round are settled; he or another one was interrupted
CloseRound ==
  /\ ask.pc = "settled"
  /\ \/ ask' = [ask EXCEPT !.pc = "holding"]
     \/ ~ ask.again /\ ask' = [ask EXCEPT !.pc = "unmark"]
  /\ UNCHANGED <<table, round, redis, prompt, current, wire, down, up, hook, page, faults, slips>>

\* markRebuyInterrupted
Hold ==
  /\ ask.pc = "holding" /\ redis.up
  /\ table' = [table EXCEPT !.marker = 0, !.resume = TRUE]
  /\ ask' = [ask EXCEPT !.pc = "held"]
  /\ Broadcast
  /\ UNCHANGED <<round, redis, prompt, current, wire, up, hook, page, faults, slips>>

\* resumeTable
Resume ==
  /\ table.resume /\ redis.up
  /\ table' = [table EXCEPT !.resume = FALSE]
  /\ ask' = IF ask.pc = "held" THEN [ask EXCEPT !.pc = "woken"] ELSE ask
  /\ Broadcast
  /\ UNCHANGED <<round, redis, prompt, current, wire, up, hook, page, faults, slips>>

\* stillBroke: who was interrupted and has no chips is asked again
Wake ==
  /\ ask.pc = "woken" /\ redis.up
  /\ IF ask.again /\ table.seated /\ ~ table.chips
     THEN round < MaxRounds /\ ask' = [Playing EXCEPT !.pc = "opening", !.gen = redis.gen]
     ELSE ask' = [ask EXCEPT !.pc = "unmark"]
  /\ UNCHANGED <<table, round, redis, prompt, current, wire, down, up, hook, page, faults, slips>>

\* the finally block of askRebuys
Unmark ==
  /\ ask.pc = "unmark" /\ redis.up
  /\ table' = [table EXCEPT !.marker = 0]
  /\ ask' = [Playing EXCEPT !.pc = "closing"]
  /\ Broadcast
  /\ UNCHANGED <<round, redis, prompt, current, wire, up, hook, page, faults, slips>>

\* finishHand, now or when the dealer tries again
FinishHand ==
  /\ ask.pc = "closing" /\ redis.up
  /\ table' = [table EXCEPT !.marker = 0, !.seated = @ /\ table.chips]
  /\ ask' = Playing
  /\ Broadcast
  /\ UNCHANGED <<round, redis, prompt, current, wire, up, hook, page, faults, slips>>

\* handleTournamentClosed: the word first, the end of the connection behind it
TournamentClosed ==
  /\ table.seated
  /\ table' = [table EXCEPT !.seated = FALSE, !.marker = 0, !.resume = FALSE]
  /\ ask' = Playing /\ prompt' = None
  /\ Send(<<[kind |-> "closed"], Close(1000)>>)
  /\ wire' = IF InRoom THEN "closing" ELSE wire
  /\ UNCHANGED <<round, redis, current, up, hook, page, faults, slips>>

\* the command throws, for him or for another player of the round; its finally
\* block may fail too
CommandFails ==
  /\ ask.pc \in {"opening", "settled", "holding", "woken", "unmark"} /\ Fault
  /\ ask' = [Playing EXCEPT !.pc = "closing"]
  /\ \/ UNCHANGED <<table, down>>
     \/ redis.up /\ table' = [table EXCEPT !.marker = 0] /\ Broadcast
  /\ UNCHANGED <<round, redis, prompt, current, wire, up, hook, page, slips>>

-----------------------------------------------------------------------------
(* Faults.                                                                   *)

\* onLost: the question is withdrawn, the terminals are told
RedisDown ==
  /\ redis.up /\ Fault
  /\ redis' = [up |-> FALSE, gen |-> redis.gen + 1]
  /\ IF ask.pc \in {"waiting", "late"} THEN Settle(TRUE) ELSE UNCHANGED ask
  /\ Send(<<OutageIs(TRUE)>>)
  /\ UNCHANGED <<table, round, prompt, current, wire, up, hook, page, slips>>

\* afterOutage
RedisBack ==
  /\ ~ redis.up
  /\ redis' = [redis EXCEPT !.up = TRUE]
  /\ Send(<<OutageIs(FALSE), Render(table)>>)
  /\ UNCHANGED <<table, ask, round, prompt, current, wire, up, hook, page, faults, slips>>

Torn(w) == IF w = "none" THEN w ELSE "cut"

\* everything under way is lost, and neither side knows
Cut ==
  /\ wire \notin {"none", "cut"} /\ Fault
  /\ wire' = "cut" /\ down' = <<>> /\ up' = <<>>
  /\ UNCHANGED <<server, hook, page, slips>>

\* memory is gone; the snapshot survives, or is rebuilt from the last checkpoint
Restart ==
  /\ Fault
  /\ redis' = [up |-> TRUE, gen |-> 0]
  /\ prompt' = None
  /\ wire' = Torn(wire) /\ down' = <<>> /\ up' = <<>>
  /\ \/ /\ ask' = IF ask.pc = "playing" THEN Playing ELSE [Playing EXCEPT !.pc = "closing"]
        /\ UNCHANGED <<table, slips>>
     \/ /\ table.seated
        /\ ask' = Playing
        /\ table' = [table EXCEPT !.chips = TRUE, !.marker = 0, !.resume = FALSE]
        /\ slips' = slips \union {"rebuilt"}
  /\ UNCHANGED <<round, current, hook, page>>

\* SEAT_TOKENS_REVOKED: his token is replaced
Revoke ==
  /\ current /\ Fault
  /\ current' = FALSE
  /\ IF InRoom THEN down' = Append(down, Close(4001)) /\ wire' = "closing"
     ELSE UNCHANGED <<down, wire>>
  /\ UNCHANGED <<table, ask, round, redis, prompt, up, hook, page, slips>>

-----------------------------------------------------------------------------
(* useTableSocket.                                                           *)

\* scheduleRetry
ScheduleRetry ==
  hook' = [sock |-> IF hook.attempt < MaxAttempts THEN "retry" ELSE "gaveUp",
           attempt |-> IF hook.attempt <= MaxAttempts THEN hook.attempt + 1 ELSE hook.attempt]

To(sock) == hook' = [hook EXCEPT !.sock = sock]

\* connect: the ticket, then the socket
Connect ==
  /\ hook.sock = "ticket"
  /\ IF current THEN To("joining") /\ wire' = "knocking"
     ELSE To("revoked") /\ UNCHANGED wire
  /\ UNCHANGED <<server, down, up, page, faults, slips>>

\* no answer, an error, too many requests; or the body is lost, which is read
\* outside the try: no next attempt is planned
TicketFails ==
  /\ hook.sock = "ticket" /\ Fault
  /\ ScheduleRetry \/ To("dead")
  /\ UNCHANGED <<server, wire, down, up, page, slips>>

Timer ==
  /\ hook.sock = "retry"
  /\ To("ticket")
  /\ UNCHANGED <<server, wire, down, up, page, faults, slips>>

\* retryNow: nothing unless a timer runs or the attempts are used up
RetryNow ==
  /\ \/ hook.sock = "retry" /\ To("ticket")
     \/ hook.sock = "gaveUp" /\ hook' = [sock |-> "ticket", attempt |-> 1]
  /\ UNCHANGED <<server, wire, down, up, page, faults, slips>>

\* mutant: the watchdog starts with the first frame
SilenceWhenOpen ==
  /\ wire = "cut" /\ hook.sock = "open"
  /\ wire' = "none"
  /\ ScheduleRetry
  /\ UNCHANGED <<server, down, up, page, faults, slips>>

\* the watchdog's 25 seconds of silence, or the browser notices first
Silence ==
  /\ wire = "cut" /\ hook.sock \in {"joining", "open"}
  /\ wire' = "none"
  /\ ScheduleRetry
  /\ UNCHANGED <<server, down, up, page, faults, slips>>

Frame   == Head(down)
Connected == hook.sock \in {"joining", "open"}

\* onclose
Closed ==
  /\ Connected /\ down # <<>> /\ Frame.kind = "close"
  /\ down' = <<>> /\ up' = <<>> /\ wire' = "none"
  /\ CASE Frame.code = 1000 -> To("over")
       [] Frame.code = 4001 -> To("revoked")
       [] OTHER             -> ScheduleRetry
  /\ UNCHANGED <<server, page, faults, slips>>

-----------------------------------------------------------------------------
(* SeatGameClient.                                                           *)

\* renderGame
Shown(p, view) ==
  IF view.chair = "empty"
  THEN [p EXCEPT !.view = view, !.asks = FALSE,
                 !.exit = IF p.saw THEN "eliminated" ELSE "seat-released"]
  ELSE [p EXCEPT !.view = view, !.saw = @ /\ (view.chair = "broke" \/ view.marked)]

\* REBUY_PROMPT
Asked(p) ==
  [p EXCEPT !.asks = TRUE, !.saw = TRUE, !.exit = IF @ = "eliminated" THEN "none" ELSE @]

\* onmessage; the first frame of a socket ends an outage of the last one
Receive ==
  /\ Connected /\ down # <<>> /\ Frame.kind # "close"
  /\ down' = Tail(down)
  /\ hook' = [sock |-> "open", attempt |-> 0]
  /\ LET p == IF hook.sock = "joining" THEN [page EXCEPT !.outage = FALSE] ELSE page
     IN  page' = CASE Frame.kind = "render" -> Shown(p, Frame.view)
                   [] Frame.kind = "prompt" -> Asked(p)
                   [] Frame.kind = "outage" -> [p EXCEPT !.outage = Frame.isDown]
                   [] Frame.kind = "closed" -> [p EXCEPT !.closed = TRUE]
                   [] OTHER                 -> p
  /\ UNCHANGED <<server, wire, up, faults, slips>>

Blocked == page.outage \/ page.view.resume \/ ~ page.view.marked

\* handleRebuyResponse of the page: what is sent counts as answered
Press(answer) ==
  /\ page.asks /\ ~ Blocked /\ page.exit = "none" /\ Connected
  /\ up' = IF InRoom THEN Append(up, answer) ELSE up
  /\ page' = [page EXCEPT !.asks = FALSE,
                          !.exit = IF answer = "decline" THEN "eliminated" ELSE @]
  /\ UNCHANGED <<server, wire, down, hook, faults>>
  /\ Crosses

\* EliminatedOverlay and TournamentClosedOverlay count down and go to the waiting
\* page; seven seconds are enough for what the page has sent
Leave ==
  /\ page.exit # "none" \/ page.closed
  /\ hook.sock # "left"
  /\ up = <<>>
  /\ To("left") /\ wire' = "none" /\ down' = <<>>
  /\ UNCHANGED <<server, up, page, faults, slips>>

\* somebody loads the page again
Reload ==
  /\ hook.sock # "left" /\ redis.up /\ table.seated
  /\ up = <<>>
  /\ page' = Fresh
  /\ hook' = [sock |-> "ticket", attempt |-> 0]
  /\ wire' = "none" /\ down' = <<>>
  /\ UNCHANGED <<server, up, faults, slips>>

-----------------------------------------------------------------------------
Hand == \/ LoseChips \/ OpenRound \/ AskHim \/ Deadline \/ NoAnswer \/ Rebuy \/ CloseRound
        \/ Hold \/ Resume \/ Wake \/ Unmark \/ FinishHand \/ TournamentClosed

Gateway == Keepalive \/ Admit \/ Greet \/ HandleRebuyResponse

Tablet == Connect \/ Timer \/ Silence \/ Closed \/ Receive \/ Leave

People == RetryNow \/ Reload \/ \E answer \in {"accept", "decline"} : Press(answer)

Faulty == TicketFails \/ CommandFails \/ RedisDown \/ RedisBack \/ Cut \/ Restart \/ Revoke

Next == Hand \/ Gateway \/ Tablet \/ People \/ Faulty

\* timers run out, requests end, frames arrive or the watchdog notices; the
\* server greets and finishes; people owe nothing
Fairness == WF_vars(Tablet) /\ WF_vars(Leave) /\ WF_vars(Admit) /\ WF_vars(Greet)

Spec == Init /\ [][Next]_vars /\ Fairness

-----------------------------------------------------------------------------
(* Properties.                                                               *)

Quiet == wire = "greeted" /\ hook.sock = "open" /\ down = <<>>

\* While the server waits for his answer (waitForRebuyResponse), a page that is
\* connected and has read everything shows the question with its buttons open:
\* no cut, outage, repeated round or new connection hides it behind an old
\* banner, an old refusal or a marker that is not his (T100, T101).  A table
\* that was never resumed keeps its own banner.
CanAnswer ==
  ask.pc = "waiting" /\ Quiet /\ up = <<>> /\ ~ table.resume
    => page.asks /\ ~ Blocked /\ page.exit = "none"

\* A player who is in the game with chips has his table on the screen: no
\* elimination drawn ahead of the server (handleRebuyResponse), no question sent
\* again to a new socket (resendPendingRebuyPrompt) outlives its round, and the
\* tablet has not gone back to the waiting page.  The code keeps this with two
\* exceptions, both in slips.  Nothing stops a question and an answer from
\* crossing: the server takes an answer for the question of the moment and the
\* page clears its question when a button is pressed, whatever is still on its
\* way (SeatGameClient.tsx:218).  And a table rebuilt from the last checkpoint
\* gives chips back to somebody whose page still asks.
PageFitsSeat ==
  slips = {} /\ table.seated /\ table.chips /\ ask.pc = "playing"
    => /\ hook.sock # "left"
       /\ Quiet => ~ page.asks /\ page.exit = "none"

\* The tablet comes back by itself or says that somebody must touch it: whatever
\* is cut, refused or restarted, a dead connection is noticed, and one path of
\* useTableSocket only forgets to plan the next attempt ("dead"): the body of the
\* ticket's response is read outside the try (use-table-socket.ts:181), where the
\* comment at :151-152 gives the reason for a try: nobody awaits this function.
\* Nobody loads the page again for ever.
TabletReturns ==
  <>[][~ Reload]_vars
    => []<>(\/ hook.sock \in {"gaveUp", "revoked", "over", "left", "dead"}
            \/ hook.sock = "open" /\ wire # "cut")

\* The words of frontend-screens-design.md:165 about the table page: elimination
\* and the end of the tournament lead back to the waiting page by themselves.
\* It does not hold: a tablet that was not connected when its player went out is
\* refused for want of a seat (assertTableAccess) and is never told why.
OutReturns == ~ table.seated ~> hook.sock \in {"left", "revoked"}
=============================================================================
