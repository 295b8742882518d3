---------------------------- MODULE PlanQuestions ----------------------------
(***************************************************************************)
(* The questions of one session: ask_user_question, the inline buttons it  *)
(* sends to Telegram, and the three ways to answer, which are the buttons, *)
(* the /plan answer command and the plan.answer action of the sidebar.     *)
(* They share the pendingQuestion slot of the payload, the in-memory map   *)
(* of button tokens and the host's queue of next-turn injections.          *)
(*                                                                         *)
(* As in PlanApproval a handler is a record whose pc says which await it   *)
(* is at.  A question id is the position of the question in asked: the     *)
(* code derives it from the id of the tool call, which is never reused.    *)
(* Of the approval cycle only what touches the slot is here: entering      *)
(* plan mode keeps it, exitPlanMode wipes it.                              *)
(***************************************************************************)
EXTENDS PlanModeState, Sequences

CONSTANTS
    Handlers,     \* bound on the handlers in flight at once
    Answers,      \* texts a user may answer with
    Questions,    \* what the agent may ask: options and allowFreetext
    MaxQuestions, \* bound on the questions asked
    MayFail       \* whether awaits fail and the process restarts

ASSUME QuestionsAssumption ==
    /\ Questions \subseteq [options : SUBSET Answers, allowFreetext : BOOLEAN]
    /\ MaxQuestions \in Nat
    /\ MayFail \in BOOLEAN

VARIABLES
    session,  \* the persisted payload
    asked,    \* asked[q] = the question with id q
    tokens,   \* the module-level map of callback tokens
    handler,  \* handler[h] = one handler's locals, between its awaits
    shown,    \* history: questions whose notification was delivered
    queue,    \* the host's next-turn injections, oldest first
    answered, \* history: <<q, checked>> for the answers ever dispatched
    failed    \* history: an await failed or the process restarted

vars == <<session, asked, tokens, handler, shown, queue, answered, failed>>

Ids == 1 .. Len(asked)

(* One button of one notification: what its token stands for.              *)
Token == [question : Nat, option : Answers]

HandlerState ==
    [ pc       : {"notify", "sending"},
      question : Nat ]
    \cup
    [ pc       : {"click", "enqueue"},
      question : Nat,
      answer   : Answers,
      checked  : BOOLEAN ]
    \cup
    [ pc       : {"clear"},
      question : Nat ]
    \cup
    [ pc : {"idle"} ]

Idle == [pc |-> "idle"]

(* A queued [QUESTION_ANSWER] injection.  checked: it came by a button or   *)
(* a command, which look at the pending question first and clear it last.   *)
Injection == [question : Nat, answer : Answers, checked : BOOLEAN]

Goto(h, pc) == handler' = [handler EXCEPT ![h].pc = pc]

Become(h, state) == handler' = [handler EXCEPT ![h] = state]

(* mutant: the answer and the question change places *)
AnsweringSwapped(pc, checked, q, a) ==
    [pc |-> pc, question |-> a, answer |-> q, checked |-> checked]

Answering(pc, checked, q, a) ==
    [pc |-> pc, question |-> q, answer |-> a, checked |-> checked]

(* The membership guard: allowFreetext, or one of the options.             *)
Acceptable(q, a) == asked[q].allowFreetext \/ a \in asked[q].options

Pending(q) == session # Absent /\ session.pendingQuestion = q

ButtonsOf(q) == [question : {q}, option : asked[q].options]

----------------------------------------------------------------------------
(* ask_user_question *)

(* mutant: the payload starts over, as if the session had none *)
AskFromScratch(h, question) ==
    /\ handler[h] = Idle
    /\ Len(asked) < MaxQuestions
    /\ asked' = Append(asked, question)
    /\ session' = QuestionAsked(FreshSession, Len(asked) + 1)
    /\ Become(h, [pc |-> "notify", question |-> Len(asked) + 1])
    /\ UNCHANGED <<tokens, shown, queue, answered, failed>>

(* persistPendingQuestion; a newer question replaces an unanswered one.    *)
Ask(h, question) ==
    /\ handler[h] = Idle
    /\ Len(asked) < MaxQuestions
    /\ asked' = Append(asked, question)
    /\ session' = QuestionAsked(session, Len(asked) + 1)
    /\ Become(h, [pc |-> "notify", question |-> Len(asked) + 1])
    /\ UNCHANGED <<tokens, shown, queue, answered, failed>>

(* The persist fails: no notification, but the tool result, which the       *)
(* sidebar renders, still says that the question was submitted.             *)
AskUnpersisted(question) ==
    /\ MayFail
    /\ Len(asked) < MaxQuestions
    /\ asked' = Append(asked, question)
    /\ failed' = TRUE
    /\ UNCHANGED <<session, tokens, handler, shown, queue, answered>>

(* renderQuestionPresentation: one token per option, before the send        *)
MintTokens(h) ==
    /\ handler[h].pc = "notify"
    /\ tokens' = tokens \cup ButtonsOf(handler[h].question)
    /\ Goto(h, "sending")
    /\ UNCHANGED <<session, asked, shown, queue, answered, failed>>

Delivered(h) ==
    /\ handler[h].pc = "sending"
    /\ shown' = shown \cup {handler[h].question}
    /\ Become(h, Idle)
    /\ UNCHANGED <<session, asked, tokens, queue, answered, failed>>

(* mutant: the tokens of a notification nobody received stay in the map *)
UndeliveredKeepingTokens(h) ==
    /\ handler[h].pc = "sending"
    /\ Become(h, Idle)
    /\ UNCHANGED <<session, asked, tokens, shown, queue, answered, failed>>

(* The host has no such seam, refuses or throws: discardTokens.             *)
Undelivered(h) ==
    /\ handler[h].pc = "sending"
    /\ tokens' = tokens \ ButtonsOf(handler[h].question)
    /\ Become(h, Idle)
    /\ UNCHANGED <<session, asked, shown, queue, answered, failed>>

----------------------------------------------------------------------------
(* The three ways to answer *)

(* A button: consumeToken, before anything is awaited.                      *)
Click(h, token) ==
    /\ handler[h] = Idle
    /\ token \in tokens
    /\ tokens' = tokens \ {token}
    /\ Become(h, Answering("click", TRUE, token.question, token.option))
    /\ UNCHANGED <<session, asked, shown, queue, answered, failed>>

(* handleQuestionCallback: the snapshot and the two staleness guards        *)
CheckClick(h) ==
    LET q == handler[h].question IN
    /\ handler[h].pc = "click"
    /\ IF Pending(q) /\ Acceptable(q, handler[h].answer)
       THEN Goto(h, "enqueue")
       ELSE Become(h, Idle)
    /\ UNCHANGED <<session, asked, tokens, shown, queue, answered, failed>>

(* /plan answer: the text goes to whatever question is pending now.         *)
Command(h, a) ==
    /\ handler[h] = Idle
    /\ \E q \in Ids :
          /\ Pending(q)
          /\ Acceptable(q, a)
          /\ Become(h, Answering("enqueue", TRUE, q, a))
    /\ UNCHANGED <<session, asked, tokens, shown, queue, answered, failed>>

(* The sidebar invokes plan.answer itself, with a question it once showed   *)
(* and an answer it offers: the action looks at no state.                   *)
Sidebar(h, q, a) ==
    /\ handler[h] = Idle
    /\ Acceptable(q, a)
    /\ Become(h, Answering("enqueue", FALSE, q, a))
    /\ UNCHANGED <<session, asked, tokens, shown, queue, answered, failed>>

(* The idempotency key of enqueueQuestionAnswerInjection is the question.   *)
(* mutant: the key names the chosen option too *)
SameOption(d, q, a) == d.question = q /\ d.answer = a

SameKey(d, q, a) == d.question = q

(* mutant: the answer goes to whatever question has the slot by now *)
SlotsQuestion(h) ==
    IF session # Absent /\ session.pendingQuestion # NoQuestion
    THEN session.pendingQuestion ELSE handler[h].question

(* The dispatch names the question the surface looked at.                   *)
DispatchedQuestion(h) == handler[h].question

(* The plan.answer handler; the other two surfaces go on to the clear.      *)
Enqueue(h) ==
    LET q == DispatchedQuestion(h)
        a == handler[h].answer
        duplicate == \E i \in 1 .. Len(queue) : SameKey(queue[i], q, a)
    IN
    /\ handler[h].pc = "enqueue"
    /\ queue' = IF duplicate THEN queue
                ELSE Append(queue, [ question |-> q, answer |-> a,
                                     checked |-> handler[h].checked ])
    /\ answered' = answered \cup {<<q, handler[h].checked>>}
    /\ Become(h, IF handler[h].checked
                 THEN [pc |-> "clear", question |-> q] ELSE Idle)
    /\ UNCHANGED <<session, asked, tokens, shown, failed>>

(* mutant: whatever is pending is cleared *)
ExpectedNone(h) == NoQuestion

ExpectedQuestion(h) == handler[h].question

(* mutant: the answer is dispatched and the slot stays armed *)
ClearForgotten(h) ==
    /\ handler[h].pc = "clear"
    /\ Become(h, Idle)
    /\ UNCHANGED <<session, asked, tokens, shown, queue, answered, failed>>

(* clearPendingQuestion, a no-op on an empty slot and on another question   *)
Clear(h) ==
    /\ handler[h].pc = "clear"
    /\ session' = IF HasQuestion(session, ExpectedQuestion(h))
                  THEN QuestionCleared(session) ELSE session
    /\ Become(h, Idle)
    /\ UNCHANGED <<asked, tokens, shown, queue, answered, failed>>

----------------------------------------------------------------------------
(* The rest of the session, the host and the failures *)

EnterPlanMode ==
    /\ ~InPlanMode(session)
    /\ session' = Entered(session)
    /\ UNCHANGED <<asked, tokens, handler, shown, queue, answered, failed>>

CancelPlan ==
    /\ MayExit(session, NoId)
    /\ session' = Exited(session)
    /\ UNCHANGED <<asked, tokens, handler, shown, queue, answered, failed>>

Drain ==
    /\ queue # <<>>
    /\ queue' = <<>>
    /\ UNCHANGED <<session, asked, tokens, handler, shown, answered, failed>>

(* A token outlives its TTL and the next createToken or click removes it.   *)
Expire(token) ==
    /\ token \in tokens
    /\ tokens' = tokens \ {token}
    /\ UNCHANGED <<session, asked, handler, shown, queue, answered, failed>>

(* A store or enqueue call fails: the handler ends, the token stays used.   *)
AwaitFails(h) ==
    /\ MayFail
    /\ handler[h].pc \in {"click", "enqueue", "clear"}
    /\ Become(h, Idle)
    /\ failed' = TRUE
    /\ UNCHANGED <<session, asked, tokens, shown, queue, answered>>

(* The map of tokens is memory; the payload and the queue are the host's.   *)
Restart ==
    /\ MayFail
    /\ handler' = [h \in Handlers |-> Idle]
    /\ tokens' = {}
    /\ failed' = TRUE
    /\ UNCHANGED <<session, asked, shown, queue, answered>>

----------------------------------------------------------------------------
Init ==
    /\ session = Absent
    /\ asked = <<>>
    /\ tokens = {}
    /\ handler = [h \in Handlers |-> Idle]
    /\ shown = {}
    /\ queue = <<>>
    /\ answered = {}
    /\ failed = FALSE

Proceed(h) ==
    \/ MintTokens(h)
    \/ Delivered(h)
    \/ Undelivered(h)
    \/ CheckClick(h)
    \/ Enqueue(h)
    \/ Clear(h)

Next ==
    \/ EnterPlanMode
    \/ CancelPlan
    \/ \E question \in Questions : AskUnpersisted(question)
    \/ \E h \in Handlers, question \in Questions : Ask(h, question)
    \/ \E h \in Handlers, token \in tokens : Click(h, token)
    \/ \E h \in Handlers, a \in Answers : Command(h, a)
    \/ \E h \in Handlers, q \in Ids, a \in Answers : Sidebar(h, q, a)
    \/ \E h \in Handlers : Proceed(h)
    \/ \E h \in Handlers : AwaitFails(h)
    \/ \E token \in tokens : Expire(token)
    \/ Drain
    \/ Restart

Spec == Init /\ [][Next]_vars

----------------------------------------------------------------------------
TypeOK ==
    /\ session \in SessionPayload
    /\ asked \in Seq(Questions)
    /\ tokens \subseteq Token
    /\ handler \in [Handlers -> HandlerState]
    /\ shown \subseteq Nat
    /\ queue \in Seq(Injection)
    /\ answered \subseteq Nat \X BOOLEAN
    /\ failed \in BOOLEAN

Answered(q) == \E checked \in BOOLEAN : <<q, checked>> \in answered

(* A question leaves the slot for one of three reasons only: the agent      *)
(* asked a newer one, plan mode was exited, or its own answer is queued.    *)
(* In particular the late answer to an older question never clears a newer  *)
(* one, and a failed dispatch leaves the question there for another try.    *)
NoQuestionLost ==
    [][ (/\ session # Absent
         /\ session.pendingQuestion # NoQuestion
         /\ session'.pendingQuestion # session.pendingQuestion)
        => \/ session'.pendingQuestion > session.pendingQuestion
           \/ session' = FreshSession
           \/ Answered(session.pendingQuestion) ]_vars

(* A button or a /plan answer text never reaches the agent as the answer to *)
(* a question it was not acceptable for, although the pending question may  *)
(* have been replaced between the user's reading, the snapshot and the      *)
(* enqueue.                                                                 *)
AnswersFitTheirQuestion ==
    \A i \in 1 .. Len(queue) :
        queue[i].checked
            => /\ queue[i].question \in Ids
               /\ Acceptable(queue[i].question, queue[i].answer)

(* The agent never reads two answers to one question in one turn, however   *)
(* many surfaces answer it at once.                                         *)
OneAnswerPerTurn ==
    \A i, j \in 1 .. Len(queue) :
        queue[i].question = queue[j].question => i = j

(* No token leaks: the map holds only tokens of notifications that were     *)
(* delivered, so that a user has the button, or are still being sent.       *)
TokensHaveButtons ==
    \A token \in tokens :
        \/ token.question \in shown
        \/ \E h \in Handlers :
              /\ handler[h].pc = "sending"
              /\ handler[h].question = token.question

(* An answer by a button or a command releases the question: once all       *)
(* handlers are done and none was cut short, no question is pending that    *)
(* the agent has been given an answer to by one of them.                    *)
AllIdle == \A h \in Handlers : handler[h] = Idle

AnswerReleasesQuestion ==
    (AllIdle /\ ~failed)
        => \A q \in Ids : <<q, TRUE>> \in answered => ~Pending(q)

(* Every step is one store call or leaves the payload alone.                *)
Store == INSTANCE PlanModeStore WITH
             ApprovalIds <- {},
             QuestionIds <- 1 .. MaxQuestions,
             MaxRejections <- 0

StorePromise == Store!Promise

----------------------------------------------------------------------------
(* types.ts, the idempotency invariant of PendingQuestion: answering an     *)
(* already answered question must be a no-op, not a duplicate inject.       *)
AnsweredAtMostOnce ==
    [][Len(queue') > Len(queue)
           => ~Answered(queue'[Len(queue')].question)]_vars
=============================================================================
