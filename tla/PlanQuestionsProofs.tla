------------------------ MODULE PlanQuestionsProofs ------------------------
(***************************************************************************)
(* The questions of a session, for any number of handlers, questions and   *)
(* answers, free-text questions included.                                  *)
(***************************************************************************)
EXTENDS PlanQuestions, PlanModeStateLemmas

USE PlanAssumption, FeedbackAssumption, AbsentAssumption, QuestionsAssumption

(* Becoming a well-typed handler keeps the type of handler.                *)
LEMMA BecomeType ==
    ASSUME TypeOK, NEW h \in Handlers, NEW r \in HandlerState, Become(h, r)
    PROVE  handler' \in [Handlers -> HandlerState]
BY DEF TypeOK, Become

(* An idle handler is well typed, and so is one that carries an answer.    *)
LEMMA LocalTypes ==
    /\ Idle \in HandlerState
    /\ \A pc \in {"click", "enqueue"}, checked \in BOOLEAN, q \in Nat, a \in Answers :
          Answering(pc, checked, q, a) \in HandlerState
    /\ \A q \in Nat : [pc |-> "clear", question |-> q] \in HandlerState
    /\ \A q \in Nat : [pc |-> "notify", question |-> q] \in HandlerState
BY DEF Idle, Answering, HandlerState

(* What a handler carries at each of its awaits.                           *)
LEMMA LocalFields ==
    ASSUME NEW r \in HandlerState
    PROVE  /\ r.pc # "idle" => r # Idle /\ r.question \in Nat
           /\ r.pc = "idle" => r = Idle
           /\ r.pc \in {"click", "enqueue"} =>
                  r.answer \in Answers /\ r.checked \in BOOLEAN
           /\ r.pc = "click" => [r EXCEPT !.pc = "enqueue"] \in HandlerState
           /\ r.pc = "notify" => [r EXCEPT !.pc = "sending"] \in HandlerState
BY DEF Idle, HandlerState

(* The inductive invariant.  A handler works on a question that was asked;  *)
(* what it is about to queue for a button or a command fits the question;   *)
(* before it clears, its answer is dispatched; and an answered question     *)
(* that is pending has a handler on its way to clear it, unless one failed. *)
LocalsSound(r) ==
    /\ r.pc # "idle" => r.question \in Ids
    /\ r.pc = "click" => r.checked
    /\ r.pc = "enqueue" /\ r.checked => Acceptable(r.question, r.answer)
    /\ r.pc = "clear" => <<r.question, TRUE>> \in answered

HandlersSound == \A h \in Handlers : LocalsSound(handler[h])

TokensSound ==
    \A token \in tokens :
        /\ token.question \in Ids
        /\ token.option \in asked[token.question].options

SlotSound == session # Absent => session.pendingQuestion \in Ids \cup {NoQuestion}

AnsweredSound == \A pair \in answered : pair[1] \in Ids

Released ==
    ~failed =>
        \A q \in Ids :
            <<q, TRUE>> \in answered /\ Pending(q)
                => \E h \in Handlers : handler[h].pc = "clear" /\ handler[h].question = q

IInv ==
    /\ TypeOK
    /\ HandlersSound
    /\ TokensSound
    /\ SlotSound
    /\ AnsweredSound
    /\ Released
    /\ AnswersFitTheirQuestion
    /\ OneAnswerPerTurn
    /\ TokensHaveButtons

(* Typing is preserved by every step.                                      *)
LEMMA NextType == TypeOK /\ HandlersSound /\ [Next]_vars => TypeOK'
<1> SUFFICES ASSUME TypeOK, HandlersSound, [Next]_vars PROVE TypeOK'
    OBVIOUS
<1> USE DEF TypeOK
<1>0. Len(asked) + 1 \in Nat /\ \A q \in Ids : q \in Nat /\ asked[q] \in Questions
    BY DEF Ids
<1>1. CASE EnterPlanMode
    BY <1>1, EnteredFields DEF EnterPlanMode, SessionPayload
<1>2. CASE CancelPlan
    BY <1>2, FreshType DEF CancelPlan, Exited, SessionPayload
<1>3. ASSUME NEW question \in Questions, AskUnpersisted(question)
      PROVE  TypeOK'
    BY <1>3 DEF AskUnpersisted
<1>4. ASSUME NEW h \in Handlers, NEW question \in Questions, Ask(h, question)
      PROVE  TypeOK'
    <2>1. session' \in SessionPayload
        BY <1>0, <1>4, QuestionAskedFields DEF Ask, SessionPayload
    <2>2. handler' \in [Handlers -> HandlerState]
        BY <1>0, <1>4, LocalTypes, BecomeType DEF Ask
    <2> QED
        BY <1>4, <2>1, <2>2 DEF Ask
<1>5. ASSUME NEW h \in Handlers, NEW token \in tokens, Click(h, token)
      PROVE  TypeOK'
    <2>1. token.question \in Nat /\ token.option \in Answers
        BY DEF Token
    <2>2. handler' \in [Handlers -> HandlerState]
        BY <1>5, <2>1, LocalTypes, BecomeType DEF Click
    <2> QED
        BY <1>5, <2>2 DEF Click
<1>6. ASSUME NEW h \in Handlers, NEW a \in Answers, Command(h, a)
      PROVE  TypeOK'
    <2>1. handler' \in [Handlers -> HandlerState]
        BY <1>0, <1>6, LocalTypes, BecomeType DEF Command
    <2> QED
        BY <1>6, <2>1 DEF Command
<1>7. ASSUME NEW h \in Handlers, NEW q \in Ids, NEW a \in Answers, Sidebar(h, q, a)
      PROVE  TypeOK'
    <2>1. handler' \in [Handlers -> HandlerState]
        BY <1>0, <1>7, LocalTypes, BecomeType DEF Sidebar
    <2> QED
        BY <1>7, <2>1 DEF Sidebar
<1>8. ASSUME NEW h \in Handlers, Proceed(h)
      PROVE  TypeOK'
    <2>1. CASE MintTokens(h)
        <3>1. handler' \in [Handlers -> HandlerState]
            BY <2>1, LocalFields DEF MintTokens, Goto
        <3>2. ButtonsOf(handler[h].question) \subseteq Token
            <4>1. handler[h].question \in Ids
                BY <2>1 DEF MintTokens, HandlersSound, LocalsSound
            <4>2. asked[handler[h].question].options \subseteq Answers
                BY <1>0, <4>1, QuestionsAssumption
            <4>3. handler[h].question \in Nat
                BY <1>0, <4>1
            <4> QED
                BY <4>2, <4>3 DEF ButtonsOf, Token
        <3>3. tokens' \subseteq Token
            BY <2>1, <3>2 DEF MintTokens
        <3> QED
            BY <2>1, <3>1, <3>3 DEF MintTokens
    <2>2. CASE Delivered(h)
        BY <2>2, LocalTypes, LocalFields, BecomeType DEF Delivered
    <2>3. CASE Undelivered(h)
        BY <2>3, LocalTypes, BecomeType DEF Undelivered
    <2>4. CASE CheckClick(h)
        <3>1. [handler[h] EXCEPT !.pc = "enqueue"] \in HandlerState
            BY <2>4, LocalFields DEF CheckClick
        <3>2. handler' \in [Handlers -> HandlerState]
            BY <2>4, <3>1, LocalTypes DEF CheckClick, Goto, Become
        <3> QED
            BY <2>4, <3>2 DEF CheckClick
    <2>5. CASE Enqueue(h)
        <3>1. /\ handler[h].question \in Nat
              /\ handler[h].answer \in Answers
              /\ handler[h].checked \in BOOLEAN
            BY <2>5, LocalFields DEF Enqueue, DispatchedQuestion
        <3>2. handler' \in [Handlers -> HandlerState]
            BY <2>5, <3>1, LocalTypes, BecomeType DEF Enqueue, DispatchedQuestion
        <3>3. queue' \in Seq(Injection)
            <4> DEFINE d == [ question |-> handler[h].question,
                              answer   |-> handler[h].answer,
                              checked  |-> handler[h].checked ]
            <4>1. d \in Injection
                BY <3>1 DEF Injection
            <4>2. queue' = queue \/ queue' = Append(queue, d)
                BY <2>5 DEF Enqueue, DispatchedQuestion
            <4> HIDE DEF d
            <4> QED
                BY <4>1, <4>2
        <3>4. answered' \subseteq Nat \X BOOLEAN
            BY <2>5, <3>1 DEF Enqueue, DispatchedQuestion
        <3> QED
            BY <2>5, <3>2, <3>3, <3>4 DEF Enqueue, DispatchedQuestion
    <2>6. CASE Clear(h)
        <3>1. session' \in SessionPayload
            BY <2>6, PresentType, QuestionClearedFields
            DEF Clear, HasQuestion, SessionPayload
        <3>2. handler' \in [Handlers -> HandlerState]
            BY <2>6, LocalTypes, BecomeType DEF Clear
        <3> QED
            BY <2>6, <3>1, <3>2 DEF Clear
    <2> QED
        BY <1>8, <2>1, <2>2, <2>3, <2>4, <2>5, <2>6 DEF Proceed
<1>9. ASSUME NEW h \in Handlers, AwaitFails(h)
      PROVE  TypeOK'
    BY <1>9, LocalTypes, BecomeType DEF AwaitFails
<1>10. ASSUME NEW token \in tokens, Expire(token)
       PROVE  TypeOK'
    BY <1>10 DEF Expire
<1>11. CASE Drain
    BY <1>11 DEF Drain
<1>12. CASE Restart
    BY <1>12, LocalTypes DEF Restart
<1>13. CASE UNCHANGED vars
    BY <1>13 DEF vars
<1> QED
    BY <1>1, <1>2, <1>3, <1>4, <1>5, <1>6, <1>7, <1>8, <1>9, <1>10, <1>11,
       <1>12, <1>13 DEF Next

----------------------------------------------------------------------------
(* What every step respects: questions and answers only accumulate.        *)
Grows ==
    /\ \/ asked' = asked
       \/ \E question \in Questions : asked' = Append(asked, question)
    /\ answered \subseteq answered'

(* The steps of all operations accumulate.                                 *)
LEMMA NextGrows == TypeOK /\ [Next]_vars => Grows
BY DEF Grows, Next, vars, Proceed, EnterPlanMode, CancelPlan, AskUnpersisted, Ask,
       Click, Command, Sidebar, MintTokens, Delivered, Undelivered, CheckClick,
       Enqueue, Clear, AwaitFails, Expire, Drain, Restart

(* A question keeps its id and its options.                                *)
LEMMA AskedStable ==
    ASSUME TypeOK, Grows
    PROVE  /\ Ids \subseteq Ids'
           /\ \A q \in Ids : asked'[q] = asked[q]
<1>1. CASE asked' = asked
    BY <1>1 DEF Ids
<1>2. ASSUME NEW question \in Questions, asked' = Append(asked, question)
      PROVE  /\ Ids \subseteq Ids'
             /\ \A q \in Ids : asked'[q] = asked[q]
    <2>1. asked \in Seq(Questions) /\ Len(asked) \in Nat
        BY DEF TypeOK
    <2>2. Len(asked') = Len(asked) + 1
        BY <1>2, <2>1
    <2> QED
        BY <1>2, <2>1, <2>2 DEF Ids
<1> QED
    BY <1>1, <1>2 DEF Grows

(* An id is a positive number.                                             *)
LEMMA IdType == \A q \in Ids : q \in Nat /\ q # NoQuestion
BY DEF Ids, NoQuestion

(* Locals that are sound stay so while the handler is at its await.        *)
LEMMA LocalsFrame ==
    ASSUME TypeOK, Grows, NEW r, LocalsSound(r)
    PROVE  LocalsSound(r)'
BY AskedStable DEF LocalsSound, Acceptable, Grows

(* One handler moves on to sound locals, the others wait.                  *)
LEMMA BecomeSound ==
    ASSUME TypeOK, Grows, HandlersSound, NEW h \in Handlers, NEW r,
           Become(h, r), LocalsSound(r)'
    PROVE  HandlersSound'
<1> SUFFICES ASSUME NEW g \in Handlers PROVE LocalsSound(handler[g])'
    BY DEF HandlersSound
<1>1. CASE g = h
    <2>1. handler'[g] = r
        BY <1>1 DEF TypeOK, Become
    <2> QED
        BY <2>1 DEF LocalsSound
<1>2. CASE g # h
    <2>1. handler'[g] = handler[g]
        BY <1>2 DEF TypeOK, Become
    <2>2. LocalsSound(handler[g])
        BY DEF HandlersSound
    <2> QED
        BY <2>1, <2>2, LocalsFrame DEF LocalsSound
<1> QED
    BY <1>1, <1>2

(* No handler moves.                                                       *)
LEMMA StillSound ==
    ASSUME TypeOK, Grows, HandlersSound, handler' = handler
    PROVE  HandlersSound'
BY LocalsFrame DEF HandlersSound, LocalsSound

(* A handler that is done has nothing to be sound about.                   *)
LEMMA IdleSound == LocalsSound(Idle)'
BY DEF LocalsSound, Idle

(* Tokens that were sound stay so.                                         *)
LEMMA TokensFrame ==
    ASSUME TypeOK, Grows, TokensSound, tokens' \subseteq tokens
    PROVE  TokensSound'
BY AskedStable DEF TokensSound

(* Answers queued for a question still fit it later.                       *)
LEMMA QueueFrame ==
    ASSUME TypeOK, Grows, AnswersFitTheirQuestion, OneAnswerPerTurn,
           queue' = queue \/ queue' = <<>>
    PROVE  AnswersFitTheirQuestion' /\ OneAnswerPerTurn'
<1>1. CASE queue' = queue
    <2>1. OneAnswerPerTurn'
        BY <1>1 DEF OneAnswerPerTurn
    <2>2. AnswersFitTheirQuestion'
        BY <1>1, AskedStable DEF AnswersFitTheirQuestion, Acceptable
    <2> QED
        BY <2>1, <2>2
<1>2. CASE queue' = <<>>
    BY <1>2 DEF OneAnswerPerTurn, AnswersFitTheirQuestion
<1> QED
    BY <1>1, <1>2

(* Fewer tokens need fewer buttons, while the senders are still sending.   *)
LEMMA ButtonsFrame ==
    ASSUME TokensHaveButtons, tokens' \subseteq tokens, shown \subseteq shown',
           \A h \in Handlers :
               handler[h].pc = "sending" => handler'[h] = handler[h]
    PROVE  TokensHaveButtons'
<1> SUFFICES ASSUME NEW token \in tokens', token.question \notin shown'
             PROVE  \E h \in Handlers :
                       /\ handler'[h].pc = "sending"
                       /\ handler'[h].question = token.question
    BY DEF TokensHaveButtons
<1>1. PICK h \in Handlers : /\ handler[h].pc = "sending"
                            /\ handler[h].question = token.question
    BY DEF TokensHaveButtons
<1> QED
    BY <1>1

(* The slot holds what it held, or nothing.                                *)
SlotKept ==
    session' # Absent =>
        \/ session'.pendingQuestion = NoQuestion
        \/ session # Absent /\ session'.pendingQuestion = session.pendingQuestion

(* What the slot keeps is a question that was asked.                       *)
LEMMA SlotFrame ==
    ASSUME TypeOK, Grows, SlotSound, SlotKept
    PROVE  SlotSound'
BY AskedStable DEF SlotSound, SlotKept

(* Known questions are answered, so no new id is.                          *)
LEMMA AnsweredFrame ==
    ASSUME TypeOK, Grows, AnsweredSound, answered' = answered
    PROVE  AnsweredSound'
BY AskedStable DEF AnsweredSound

(* No answer is added, no question becomes pending, and the handlers that   *)
(* are to clear one still are.                                              *)
LEMMA ReleasedFrame ==
    ASSUME AnsweredSound, Released, SlotKept, answered' = answered,
           failed => failed',
           \A h \in Handlers :
               handler[h].pc = "clear" => handler'[h] = handler[h]
    PROVE  Released'
<1> SUFFICES ASSUME ~failed', NEW q \in Ids',
                    <<q, TRUE>> \in answered', Pending(q)'
             PROVE  \E h \in Handlers : /\ handler'[h].pc = "clear"
                                        /\ handler'[h].question = q
    BY DEF Released
<1>1. q \in Ids
    BY DEF AnsweredSound
<1>2. Pending(q)
    BY <1>1, IdType DEF Pending, SlotKept
<1>3. PICK h \in Handlers : handler[h].pc = "clear" /\ handler[h].question = q
    BY <1>1, <1>2 DEF Released
<1> QED
    BY <1>3

(* A step that sends nothing, answers nothing and asks nothing.            *)
LEMMA QuietStep ==
    ASSUME IInv, TypeOK', Grows, HandlersSound', SlotKept,
           tokens' \subseteq tokens,
           shown' = shown,
           queue' = queue \/ queue' = <<>>,
           answered' = answered,
           failed => failed',
           \A h \in Handlers :
               handler[h].pc \in {"sending", "clear"} => handler'[h] = handler[h]
    PROVE  IInv'
<1>1. TokensSound'
    BY TokensFrame DEF IInv
<1>2. SlotSound' /\ AnsweredSound'
    BY SlotFrame, AnsweredFrame DEF IInv
<1>3. AnswersFitTheirQuestion' /\ OneAnswerPerTurn'
    BY QueueFrame DEF IInv
<1>4. TokensHaveButtons'
    BY ButtonsFrame DEF IInv
<1>5. Released'
    BY ReleasedFrame DEF IInv
<1> QED
    BY <1>1, <1>2, <1>3, <1>4, <1>5 DEF IInv

(* persistPendingQuestion: the new id is the largest, and not answered.    *)
LEMMA AskStep ==
    ASSUME IInv, TypeOK', Grows, NEW h \in Handlers, NEW question \in Questions,
           Ask(h, question)
    PROVE  IInv'
<1>0. PICK n \in Nat : n = Len(asked) + 1
    BY DEF IInv, TypeOK
<1> DEFINE r == [pc |-> "notify", question |-> n]
<1>1. n \in Ids' /\ n \notin Ids /\ n \in Nat
    BY <1>0 DEF Ask, IInv, TypeOK, Ids
<1>2. HandlersSound'
    <2>1. LocalsSound(r)'
        BY <1>1 DEF LocalsSound
    <2>2. Become(h, r)
        BY <1>0 DEF Ask
    <2> HIDE DEF r
    <2> QED
        BY <2>1, <2>2, BecomeSound DEF IInv
<1>3. session' # Absent /\ session'.pendingQuestion = n
    BY <1>0, QuestionAskedFields DEF Ask, IInv, TypeOK
<1>4. SlotSound'
    BY <1>1, <1>3 DEF SlotSound
<1>5. Released'
    BY <1>1, <1>3 DEF Released, Pending, AnsweredSound, IInv, Ask
<1>6. \A g \in Handlers :
          handler[g].pc = "sending" => handler'[g] = handler[g]
    BY DEF Ask, Become, IInv, TypeOK, Idle
<1>7. TokensSound' /\ AnsweredSound'
    BY TokensFrame, AnsweredFrame DEF IInv, Ask
<1>8. AnswersFitTheirQuestion' /\ OneAnswerPerTurn'
    BY QueueFrame DEF IInv, Ask
<1>9. TokensHaveButtons'
    BY <1>6, ButtonsFrame DEF IInv, Ask
<1> QED
    BY <1>2, <1>4, <1>5, <1>7, <1>8, <1>9 DEF IInv

(* The tokens of a question belong to the handler that sends its buttons.  *)
LEMMA MintStep ==
    ASSUME IInv, TypeOK', Grows, NEW h \in Handlers, MintTokens(h)
    PROVE  IInv'
<1> DEFINE q == handler[h].question
<1>1. q \in Ids
    BY DEF MintTokens, IInv, HandlersSound, LocalsSound
<1>2. /\ handler'[h].pc = "sending"
      /\ handler'[h].question = q
      /\ \A g \in Handlers : g # h => handler'[g] = handler[g]
    BY DEF MintTokens, Goto, IInv, TypeOK
<1>3. HandlersSound'
    <2> SUFFICES ASSUME NEW g \in Handlers PROVE LocalsSound(handler[g])'
        BY DEF HandlersSound
    <2>1. CASE g = h
        BY <1>1, <1>2, <2>1, AskedStable DEF LocalsSound, IInv
    <2>2. CASE g # h
        BY <1>2, <2>2, LocalsFrame DEF LocalsSound, IInv, HandlersSound
    <2> QED
        BY <2>1, <2>2
<1>4. TokensSound'
    BY <1>1, AskedStable DEF TokensSound, IInv, MintTokens, ButtonsOf
<1>5. TokensHaveButtons'
    <2> SUFFICES ASSUME NEW token \in tokens', token.question \notin shown'
                 PROVE  \E g \in Handlers :
                           /\ handler'[g].pc = "sending"
                           /\ handler'[g].question = token.question
        BY DEF TokensHaveButtons
    <2>1. CASE token \in ButtonsOf(q)
        BY <1>2, <2>1 DEF ButtonsOf
    <2>2. CASE token \in tokens
        <3>1. PICK g \in Handlers : /\ handler[g].pc = "sending"
                                    /\ handler[g].question = token.question
            BY <2>2 DEF IInv, TokensHaveButtons, MintTokens
        <3>2. g # h
            BY <3>1 DEF MintTokens
        <3> QED
            BY <1>2, <3>1, <3>2
    <2> QED
        BY <2>1, <2>2 DEF MintTokens
<1>6. Released'
    <2>1. \A g \in Handlers :
              handler[g].pc = "clear" => handler'[g] = handler[g]
        BY <1>2 DEF MintTokens
    <2> QED
        BY <2>1, ReleasedFrame DEF IInv, MintTokens, SlotKept
<1>7. SlotSound' /\ AnsweredSound'
    BY SlotFrame, AnsweredFrame DEF IInv, MintTokens, SlotKept
<1>8. AnswersFitTheirQuestion' /\ OneAnswerPerTurn'
    BY QueueFrame DEF IInv, MintTokens
<1> QED
    BY <1>3, <1>4, <1>5, <1>6, <1>7, <1>8 DEF IInv

(* A delivered notification shows its buttons; of an undelivered one no     *)
(* token is left, as each of its tokens offers one of the options.          *)
LEMMA SentStep ==
    ASSUME IInv, TypeOK', Grows, NEW h \in Handlers,
           Delivered(h) \/ Undelivered(h)
    PROVE  IInv'
<1> DEFINE q == handler[h].question
<1>1. /\ Become(h, Idle) /\ handler[h].pc = "sending" /\ tokens' \subseteq tokens
      /\ UNCHANGED <<session, asked, queue, answered, failed>>
    BY DEF Delivered, Undelivered
<1>2. \A g \in Handlers : g # h => handler'[g] = handler[g]
    BY <1>1 DEF Become, IInv, TypeOK
<1>3. HandlersSound'
    BY <1>1, IdleSound, BecomeSound DEF IInv
<1>4. \A token \in tokens' :
          token.question # q \/ token.question \in shown'
    <2>1. CASE Delivered(h)
        BY <2>1 DEF Delivered
    <2>2. CASE Undelivered(h)
        <3> SUFFICES ASSUME NEW token \in tokens, token.question = q
                     PROVE  token \in ButtonsOf(q)
            BY <2>2 DEF Undelivered
        <3>1. token.option \in asked[q].options
            BY DEF IInv, TokensSound
        <3> QED
            BY <3>1 DEF ButtonsOf, IInv, TypeOK, Token
    <2> QED
        BY <2>1, <2>2
<1>5. shown \subseteq shown'
    BY DEF Delivered, Undelivered
<1>6. TokensHaveButtons'
    <2> SUFFICES ASSUME NEW token \in tokens', token.question \notin shown'
                 PROVE  \E g \in Handlers :
                           /\ handler'[g].pc = "sending"
                           /\ handler'[g].question = token.question
        BY DEF TokensHaveButtons
    <2>1. PICK g \in Handlers : /\ handler[g].pc = "sending"
                                /\ handler[g].question = token.question
        BY <1>1, <1>5 DEF IInv, TokensHaveButtons
    <2>2. g # h
        BY <1>4, <2>1
    <2> QED
        BY <1>2, <2>1, <2>2
<1>7. Released'
    <2>1. \A g \in Handlers :
              handler[g].pc = "clear" => handler'[g] = handler[g]
        BY <1>1, <1>2
    <2> QED
        BY <1>1, <2>1, ReleasedFrame DEF IInv, SlotKept
<1>8. TokensSound' /\ SlotSound' /\ AnsweredSound'
    BY <1>1, TokensFrame, SlotFrame, AnsweredFrame DEF IInv, SlotKept
<1>9. AnswersFitTheirQuestion' /\ OneAnswerPerTurn'
    BY <1>1, QueueFrame DEF IInv
<1> QED
    BY <1>3, <1>6, <1>7, <1>8, <1>9 DEF IInv

(* A handler that clears the slot was the last word on its question.       *)
LEMMA ClearStep ==
    ASSUME IInv, TypeOK', Grows, NEW h \in Handlers, Clear(h)
    PROVE  IInv'
<1> DEFINE q == handler[h].question
<1>1. /\ Become(h, Idle) /\ handler[h].pc = "clear"
      /\ UNCHANGED <<asked, tokens, shown, queue, answered, failed>>
    BY DEF Clear
<1>2. \A g \in Handlers : g # h => handler'[g] = handler[g]
    BY <1>1 DEF Become, IInv, TypeOK
<1>3. HandlersSound'
    BY <1>1, IdleSound, BecomeSound DEF IInv
<1>4. q \in Ids /\ q # NoQuestion
    BY <1>1, IdType DEF IInv, HandlersSound, LocalsSound
<1>5. SlotKept /\ \A p \in Ids : Pending(p)' => Pending(p) /\ p # q
    <2>1. CASE HasQuestion(session, q)
        <3>1. session \in SessionState
            BY <2>1, PresentType DEF HasQuestion, IInv, TypeOK
        <3>2. session' = QuestionCleared(session)
            BY <2>1 DEF Clear, ExpectedQuestion
        <3> QED
            BY <3>1, <3>2, QuestionClearedFields, IdType DEF SlotKept, Pending
    <2>2. CASE ~HasQuestion(session, q)
        <3>1. session' = session
            BY <2>2 DEF Clear, ExpectedQuestion
        <3>2. ~Pending(q)
            BY <1>4, <2>2 DEF HasQuestion, Pending
        <3> QED
            BY <3>1, <3>2 DEF SlotKept, Pending
    <2> QED
        BY <2>1, <2>2
<1>6. Released'
    <2> SUFFICES ASSUME ~failed', NEW p \in Ids',
                        <<p, TRUE>> \in answered', Pending(p)'
                 PROVE  \E g \in Handlers : /\ handler'[g].pc = "clear"
                                            /\ handler'[g].question = p
        BY DEF Released
    <2>1. p \in Ids
        BY <1>1 DEF Ids
    <2>2. Pending(p) /\ p # q
        BY <1>5, <2>1
    <2>3. PICK g \in Handlers : handler[g].pc = "clear" /\ handler[g].question = p
        BY <1>1, <2>1, <2>2 DEF IInv, Released
    <2> QED
        BY <1>2, <2>2, <2>3
<1>7. TokensSound' /\ SlotSound' /\ AnsweredSound'
    BY <1>1, <1>5, TokensFrame, SlotFrame, AnsweredFrame DEF IInv
<1>8. AnswersFitTheirQuestion' /\ OneAnswerPerTurn'
    BY <1>1, QueueFrame DEF IInv
<1>9. TokensHaveButtons'
    BY <1>1, <1>2, ButtonsFrame DEF IInv
<1> QED
    BY <1>3, <1>5, <1>6, <1>7, <1>8, <1>9 DEF IInv

(* An answer is queued unless one to its question is, and a checked answer  *)
(* fits; its handler is then on its way to the slot.                        *)
LEMMA EnqueueStep ==
    ASSUME IInv, TypeOK', Grows, NEW h \in Handlers, Enqueue(h)
    PROVE  IInv'
<1>0. PICK r \in HandlerState : r = handler[h]
    BY DEF IInv, TypeOK
<1> DEFINE d == [question |-> r.question, answer |-> r.answer, checked |-> r.checked]
           next == IF r.checked THEN [pc |-> "clear", question |-> r.question] ELSE Idle
<1>1. /\ r.pc = "enqueue"
      /\ r.question \in Ids
      /\ r.checked \in BOOLEAN
      /\ r.answer \in Answers
      /\ r.checked => Acceptable(r.question, r.answer)
    BY <1>0, LocalFields DEF Enqueue, DispatchedQuestion, IInv, HandlersSound, LocalsSound
<1>2. /\ Become(h, next)
      /\ answered' = answered \cup {<<r.question, r.checked>>}
      /\ UNCHANGED <<session, asked, tokens, shown, failed>>
    BY <1>0 DEF Enqueue, DispatchedQuestion
<1>3. \/ queue' = queue
      \/ /\ queue' = Append(queue, d)
         /\ \A i \in 1 .. Len(queue) : queue[i].question # r.question
    BY <1>0 DEF Enqueue, DispatchedQuestion, SameKey
<1>4. handler'[h] = next /\ \A g \in Handlers : g # h => handler'[g] = handler[g]
    BY <1>2 DEF Become, IInv, TypeOK
<1>5. HandlersSound'
    <2>1. CASE r.checked
        <3>1. <<r.question, TRUE>> \in answered' /\ r.question \in Ids'
            BY <1>1, <1>2, <2>1 DEF Ids
        <3>2. LocalsSound([pc |-> "clear", question |-> r.question])'
            BY <3>1 DEF LocalsSound
        <3> QED
            BY <1>2, <2>1, <3>2, BecomeSound DEF IInv
    <2>2. CASE ~r.checked
        BY <1>2, <2>2, IdleSound, BecomeSound DEF IInv
    <2> QED
        BY <2>1, <2>2
<1>6. AnsweredSound'
    BY <1>1, <1>2 DEF AnsweredSound, IInv, Ids
<1>7. Released'
    <2> SUFFICES ASSUME ~failed', NEW q \in Ids',
                        <<q, TRUE>> \in answered', Pending(q)'
                 PROVE  \E g \in Handlers : /\ handler'[g].pc = "clear"
                                            /\ handler'[g].question = q
        BY DEF Released
    <2>1. CASE <<q, TRUE>> = <<r.question, r.checked>>
        <3>1. q = r.question /\ r.checked = TRUE
            BY <2>1
        <3>2. handler'[h] = [pc |-> "clear", question |-> r.question]
            BY <1>4, <3>1
        <3> QED
            BY <3>1, <3>2
    <2>2. CASE <<q, TRUE>> \in answered
        <3>1. q \in Ids /\ ~failed /\ Pending(q)
            BY <1>2 DEF Ids, Pending
        <3>2. PICK g \in Handlers : /\ handler[g].pc = "clear"
                                    /\ handler[g].question = q
            BY <2>2, <3>1 DEF IInv, Released
        <3>3. g # h
            BY <1>0, <1>1, <3>2
        <3> QED
            BY <1>4, <3>2, <3>3
    <2> QED
        BY <1>2, <2>1, <2>2
<1>8. AnswersFitTheirQuestion' /\ OneAnswerPerTurn'
    <2>1. CASE queue' = queue
        BY <2>1, QueueFrame DEF IInv
    <2>2. CASE /\ queue' = Append(queue, d)
               /\ \A i \in 1 .. Len(queue) : queue[i].question # r.question
        <3>1. queue \in Seq(Injection) /\ Len(queue) \in Nat
            BY DEF IInv, TypeOK
        <3>2. /\ Len(queue') = Len(queue) + 1
              /\ queue'[Len(queue) + 1] = d
              /\ \A i \in 1 .. Len(queue) : queue'[i] = queue[i]
            BY <2>2, <3>1
        <3>3. \A i \in 1 .. Len(queue') : i \in 1 .. Len(queue) \/ i = Len(queue) + 1
            BY <3>1, <3>2
        <3>4. OneAnswerPerTurn'
            BY <2>2, <3>1, <3>2, <3>3 DEF OneAnswerPerTurn, IInv
        <3>5. AnswersFitTheirQuestion'
            BY <1>1, <1>2, <3>2, <3>3
            DEF AnswersFitTheirQuestion, IInv, Ids, Acceptable
        <3> QED
            BY <3>4, <3>5
    <2> QED
        BY <1>3, <2>1, <2>2
<1>9. TokensSound' /\ SlotSound'
    BY <1>2, TokensFrame, SlotFrame DEF IInv, SlotKept
<1>10. TokensHaveButtons'
    <2>1. \A g \in Handlers :
              handler[g].pc = "sending" => handler'[g] = handler[g]
        BY <1>0, <1>1, <1>4
    <2> QED
        BY <1>2, <2>1, ButtonsFrame DEF IInv
<1> QED
    BY <1>5, <1>6, <1>7, <1>8, <1>9, <1>10 DEF IInv

(* A handler that starts or ends outside the sends and the clears.         *)
LEMMA QuietMove ==
    ASSUME IInv, TypeOK', Grows, NEW h \in Handlers, NEW r, Become(h, r),
           LocalsSound(r)', SlotKept,
           handler[h].pc \notin {"sending", "clear"},
           tokens' \subseteq tokens,
           UNCHANGED <<shown, queue, answered>>,
           failed => failed'
    PROVE  IInv'
<1>1. HandlersSound'
    BY BecomeSound DEF IInv
<1>2. \A g \in Handlers :
          handler[g].pc \in {"sending", "clear"} => handler'[g] = handler[g]
    BY DEF Become, IInv, TypeOK
<1> QED
    BY <1>1, <1>2, QuietStep

(* A handler that fails is over, its question may stay.                    *)
LEMMA FailStep ==
    ASSUME IInv, TypeOK', Grows, HandlersSound', failed', UNCHANGED session,
           tokens' \subseteq tokens,
           UNCHANGED <<shown, queue, answered>>,
           TokensHaveButtons'
    PROVE  IInv'
<1>1. Released'
    BY DEF Released
<1>2. TokensSound' /\ SlotSound' /\ AnsweredSound'
    BY TokensFrame, SlotFrame, AnsweredFrame DEF IInv, SlotKept
<1>3. AnswersFitTheirQuestion' /\ OneAnswerPerTurn'
    BY QueueFrame DEF IInv
<1> QED
    BY <1>1, <1>2, <1>3 DEF IInv

(* Every step keeps the invariant.                                         *)
LEMMA NextSound == IInv /\ [Next]_vars => IInv'
<1> SUFFICES ASSUME IInv, [Next]_vars PROVE IInv'
    OBVIOUS
<1>0. TypeOK' /\ Grows
    BY NextType, NextGrows DEF IInv
<1>1. CASE EnterPlanMode
    <2>1. Entered(session).pendingQuestion = OrFresh(session).pendingQuestion
        BY EnteredFields DEF IInv, TypeOK
    <2>2. SlotKept
        BY <1>1, <2>1 DEF EnterPlanMode, SlotKept, OrFresh, FreshSession
    <2>3. HandlersSound'
        BY <1>0, <1>1, StillSound DEF IInv, EnterPlanMode
    <2> QED
        BY <1>0, <1>1, <2>2, <2>3, QuietStep DEF EnterPlanMode
<1>2. CASE CancelPlan
    <2>1. SlotKept
        BY <1>2 DEF CancelPlan, SlotKept, Exited, FreshSession
    <2>2. HandlersSound'
        BY <1>0, <1>2, StillSound DEF IInv, CancelPlan
    <2> QED
        BY <1>0, <1>2, <2>1, <2>2, QuietStep DEF CancelPlan
<1>3. ASSUME NEW question \in Questions, AskUnpersisted(question)
      PROVE  IInv'
    <2>1. HandlersSound'
        BY <1>0, <1>3, StillSound DEF IInv, AskUnpersisted
    <2> QED
        BY <1>0, <1>3, <2>1, QuietStep DEF AskUnpersisted, SlotKept
<1>4. ASSUME NEW h \in Handlers, NEW question \in Questions, Ask(h, question)
      PROVE  IInv'
    BY <1>0, <1>4, AskStep
<1>5. ASSUME NEW h \in Handlers, NEW token \in tokens, Click(h, token)
      PROVE  IInv'
    <2>1. PICK q \in Ids, a \in Answers : token.question = q /\ token.option = a
        BY DEF IInv, TokensSound, TypeOK, Token
    <2>2. LocalsSound(Answering("click", TRUE, q, a))'
        BY <1>0, <2>1, AskedStable DEF LocalsSound, Answering, IInv
    <2>3. Become(h, Answering("click", TRUE, q, a)) /\ handler[h].pc = "idle"
        BY <1>5, <2>1 DEF Click, Idle, Become, Answering
    <2> QED
        BY <1>0, <1>5, <2>2, <2>3, QuietMove DEF Click, SlotKept
<1>6. ASSUME NEW h \in Handlers, NEW a \in Answers, Command(h, a)
      PROVE  IInv'
    <2>1. PICK q \in Ids : /\ Acceptable(q, a)
                           /\ Become(h, Answering("enqueue", TRUE, q, a))
        BY <1>6 DEF Command
    <2>2. LocalsSound(Answering("enqueue", TRUE, q, a))'
        BY <1>0, <2>1, AskedStable DEF LocalsSound, Answering, Acceptable, IInv
    <2>3. handler[h].pc = "idle"
        BY <1>6 DEF Command, Idle
    <2> QED
        BY <1>0, <1>6, <2>1, <2>2, <2>3, QuietMove DEF Command, SlotKept
<1>7. ASSUME NEW h \in Handlers, NEW q \in Ids, NEW a \in Answers, Sidebar(h, q, a)
      PROVE  IInv'
    <2>1. Become(h, Answering("enqueue", FALSE, q, a)) /\ handler[h].pc = "idle"
        BY <1>7 DEF Sidebar, Idle, Become, Answering
    <2>2. LocalsSound(Answering("enqueue", FALSE, q, a))'
        BY <1>0, AskedStable DEF LocalsSound, Answering, IInv
    <2> QED
        BY <1>0, <1>7, <2>1, <2>2, QuietMove DEF Sidebar, SlotKept
<1>8. ASSUME NEW h \in Handlers, Proceed(h)
      PROVE  IInv'
    <2>1. CASE MintTokens(h)
        BY <1>0, <2>1, MintStep
    <2>2. CASE Delivered(h) \/ Undelivered(h)
        BY <1>0, <2>2, SentStep
    <2>3. CASE CheckClick(h)
        <3>0. PICK r \in HandlerState : r = handler[h]
            BY DEF IInv, TypeOK
        <3>1. /\ r.pc = "click" /\ r.question \in Ids
              /\ [r EXCEPT !.pc = "enqueue"] \in HandlerState
            BY <2>3, <3>0, LocalFields DEF CheckClick, IInv, HandlersSound, LocalsSound
        <3>2. CASE Acceptable(r.question, r.answer) /\ Goto(h, "enqueue")
            <4>1. PICK s : s = [r EXCEPT !.pc = "enqueue"]
                OBVIOUS
            <4>2. Become(h, s)
                BY <3>0, <3>2, <4>1 DEF Goto, Become
            <4>3. /\ s.pc = "enqueue"
                  /\ s.question = r.question
                  /\ s.answer = r.answer
                BY <3>1, <4>1 DEF HandlerState
            <4>4. LocalsSound(s)'
                BY <1>0, <3>1, <3>2, <4>3, AskedStable
                DEF LocalsSound, Acceptable, IInv
            <4> QED
                BY <1>0, <2>3, <3>0, <3>1, <4>2, <4>4, QuietMove
                DEF CheckClick, SlotKept
        <3>3. CASE Become(h, Idle)
            BY <1>0, <2>3, <3>3, IdleSound, QuietMove DEF CheckClick, SlotKept
        <3> QED
            BY <2>3, <3>0, <3>2, <3>3 DEF CheckClick
    <2>4. CASE Enqueue(h)
        BY <1>0, <2>4, EnqueueStep
    <2>5. CASE Clear(h)
        BY <1>0, <2>5, ClearStep
    <2> QED
        BY <1>8, <2>1, <2>2, <2>3, <2>4, <2>5 DEF Proceed
<1>9. ASSUME NEW h \in Handlers, AwaitFails(h)
      PROVE  IInv'
    <2>1. HandlersSound'
        BY <1>0, <1>9, IdleSound, BecomeSound DEF IInv, AwaitFails
    <2>2. \A g \in Handlers :
              handler[g].pc = "sending" => handler'[g] = handler[g]
        BY <1>9 DEF AwaitFails, Become, IInv, TypeOK
    <2>3. TokensHaveButtons'
        BY <1>9, <2>2, ButtonsFrame DEF IInv, AwaitFails
    <2> QED
        BY <1>0, <1>9, <2>1, <2>3, FailStep DEF AwaitFails
<1>10. ASSUME NEW token \in tokens, Expire(token)
       PROVE  IInv'
    <2>1. HandlersSound'
        BY <1>0, <1>10, StillSound DEF IInv, Expire
    <2> QED
        BY <1>0, <1>10, <2>1, QuietStep DEF Expire, SlotKept
<1>11. CASE Drain
    <2>1. HandlersSound'
        BY <1>0, <1>11, StillSound DEF IInv, Drain
    <2> QED
        BY <1>0, <1>11, <2>1, QuietStep DEF Drain, SlotKept
<1>12. CASE Restart
    <2>1. HandlersSound'
        <3> SUFFICES ASSUME NEW h \in Handlers PROVE LocalsSound(handler[h])'
            BY DEF HandlersSound
        <3>1. handler'[h] = Idle
            BY <1>12 DEF Restart
        <3> QED
            BY <3>1, IdleSound DEF LocalsSound, Idle
    <2>2. TokensHaveButtons'
        BY <1>12 DEF Restart, TokensHaveButtons
    <2> QED
        BY <1>0, <1>12, <2>1, <2>2, FailStep DEF Restart
<1>13. CASE UNCHANGED vars
    <2>1. HandlersSound'
        BY <1>0, <1>13, StillSound DEF IInv, vars
    <2> QED
        BY <1>0, <1>13, <2>1, QuietStep DEF vars, SlotKept
<1> QED
    BY <1>1, <1>2, <1>3, <1>4, <1>5, <1>6, <1>7, <1>8, <1>9, <1>10, <1>11,
       <1>12, <1>13 DEF Next

(* A session that asked nothing yet.                                       *)
LEMMA InitSound == Init => IInv
<1> SUFFICES ASSUME Init PROVE IInv
    OBVIOUS
<1>1. TypeOK
    <2>1. Idle \in HandlerState
        BY LocalTypes
    <2>2. handler \in [Handlers -> HandlerState]
        BY <2>1 DEF Init
    <2>3. asked \in Seq(Questions) /\ queue \in Seq(Injection)
        BY DEF Init
    <2>4. /\ session \in SessionPayload
          /\ tokens \subseteq Token
          /\ shown \subseteq Nat
          /\ answered \subseteq Nat \X BOOLEAN
          /\ failed \in BOOLEAN
        BY DEF Init, SessionPayload
    <2> QED
        BY <2>2, <2>3, <2>4 DEF TypeOK
<1>2. HandlersSound
    BY DEF Init, HandlersSound, LocalsSound, Idle
<1>3. TokensSound /\ SlotSound /\ AnsweredSound /\ Released
    BY DEF Init, TokensSound, SlotSound, AnsweredSound, Released
<1>4. AnswersFitTheirQuestion /\ OneAnswerPerTurn /\ TokensHaveButtons
    BY DEF Init, AnswersFitTheirQuestion, OneAnswerPerTurn, TokensHaveButtons
<1> QED
    BY <1>1, <1>2, <1>3, <1>4 DEF IInv

(* The invariant holds in every state of the question flow.                *)
THEOREM Invariance == Spec => []IInv
BY InitSound, NextSound, PTL DEF Spec

(* The payload, the tokens, the handlers' locals and the queued answers     *)
(* keep their types, whatever the handlers interleave with.                 *)
THEOREM TypeCorrect == Spec => []TypeOK
<1>1. IInv => TypeOK
    BY DEF IInv
<1> QED
    BY <1>1, Invariance, PTL

(* handleQuestionCallback and handleAnswer queue an answer only to the      *)
(* question it was acceptable for, although the slot may change meanwhile.  *)
THEOREM AnswersFit == Spec => []AnswersFitTheirQuestion
<1>1. IInv => AnswersFitTheirQuestion
    BY DEF IInv
<1> QED
    BY <1>1, Invariance, PTL

(* The idempotency key of the answers leaves one per question and turn.    *)
THEOREM OneAnswer == Spec => []OneAnswerPerTurn
<1>1. IInv => OneAnswerPerTurn
    BY DEF IInv
<1> QED
    BY <1>1, Invariance, PTL

(* discardTokens and consumeToken leave no token without a button.         *)
THEOREM NoTokenLeaks == Spec => []TokensHaveButtons
<1>1. IInv => TokensHaveButtons
    BY DEF IInv
<1> QED
    BY <1>1, Invariance, PTL

(* The clear of a button or a command releases its question: were it        *)
(* pending with all handlers done, one would still be on its way to it.     *)
THEOREM AnswersRelease == Spec => []AnswerReleasesQuestion
<1>1. IInv => AnswerReleasesQuestion
    <2> SUFFICES ASSUME IInv, AllIdle, ~failed,
                        NEW q \in Ids, <<q, TRUE>> \in answered, Pending(q)
                 PROVE  FALSE
        BY DEF AnswerReleasesQuestion
    <2>1. PICK h \in Handlers : handler[h].pc = "clear"
        BY DEF IInv, Released
    <2> QED
        BY <2>1 DEF AllIdle, Idle
<1> QED
    BY <1>1, Invariance, PTL

(* Only a newer question, an exit or the clear after its own answer takes   *)
(* a question out of the slot.                                              *)
LEMMA SlotStep ==
    ASSUME IInv, Next,
           session # Absent,
           session.pendingQuestion # NoQuestion,
           session'.pendingQuestion # session.pendingQuestion
    PROVE  \/ session'.pendingQuestion > session.pendingQuestion
           \/ session' = FreshSession
           \/ Answered(session.pendingQuestion)
<1>0. session \in SessionState /\ session.pendingQuestion \in Ids
    BY PresentType DEF IInv, TypeOK, SlotSound
<1>1. ~EnterPlanMode
    BY <1>0, EnteredFields DEF EnterPlanMode, OrFresh, SessionPayload
<1>2. CASE CancelPlan
    BY <1>2 DEF CancelPlan, Exited
<1>3. ASSUME NEW h \in Handlers, NEW question \in Questions, Ask(h, question)
      PROVE  session'.pendingQuestion > session.pendingQuestion
    <2>1. Len(asked) + 1 \in Nat
        BY DEF IInv, TypeOK
    <2>2. session'.pendingQuestion = Len(asked) + 1
        BY <1>3, <2>1, QuestionAskedFields DEF Ask, IInv, TypeOK
    <2> QED
        BY <1>0, <2>1, <2>2 DEF Ids
<1>4. ASSUME NEW h \in Handlers, Clear(h)
      PROVE  Answered(session.pendingQuestion)
    <2>1. <<handler[h].question, TRUE>> \in answered
          /\ handler[h].question \in Ids
        BY <1>4 DEF Clear, IInv, HandlersSound, LocalsSound
    <2>2. HasQuestion(session, handler[h].question)
        BY <1>4 DEF Clear, ExpectedQuestion
    <2>3. handler[h].question = session.pendingQuestion
        BY <2>1, <2>2, IdType DEF HasQuestion
    <2> QED
        BY <2>1, <2>3 DEF Answered
<1> QED
    BY <1>1, <1>2, <1>3, <1>4
    DEF Next, Proceed, AskUnpersisted, Click, Command, Sidebar, MintTokens,
        Delivered, Undelivered, CheckClick, Enqueue, AwaitFails, Expire, Drain,
        Restart

(* persistPendingQuestion, exitPlanMode and clearPendingQuestion are the    *)
(* only ways out of the slot, and the clear follows the question's answer.  *)
THEOREM QuestionsKept == Spec => NoQuestionLost
<1>1. IInv /\ [Next]_vars
        => [ (/\ session # Absent
              /\ session.pendingQuestion # NoQuestion
              /\ session'.pendingQuestion # session.pendingQuestion)
             => \/ session'.pendingQuestion > session.pendingQuestion
                \/ session' = FreshSession
                \/ Answered(session.pendingQuestion) ]_vars
    BY SlotStep
<1> QED
    BY <1>1, Invariance, PTL DEF Spec, NoQuestionLost

----------------------------------------------------------------------------
(* The question flow implements the store's promise.                       *)
LEMMA SameOperators ==
    /\ \A s : Store!InPlanMode(s) = InPlanMode(s)
    /\ \A s : Store!Entered(s) = Entered(s)
    /\ \A s, token : Store!MayExit(s, token) = MayExit(s, token)
    /\ \A s : Store!Exited(s) = Exited(s)
    /\ \A s, q : Store!QuestionAsked(s, q) = QuestionAsked(s, q)
    /\ \A s, q : Store!HasQuestion(s, q) = HasQuestion(s, q)
    /\ \A s : Store!QuestionCleared(s) = QuestionCleared(s)
<1> USE DEF Store!NoId, NoId, Store!NoQuestion, NoQuestion
<1>1. \A s : Store!InPlanMode(s) = InPlanMode(s)
    BY DEF Store!InPlanMode, InPlanMode
<1>2. Store!FreshSession = FreshSession
    BY DEF Store!FreshSession, FreshSession
<1>3. \A s : Store!OrFresh(s) = OrFresh(s)
    BY <1>2 DEF Store!OrFresh, OrFresh
<1>4. \A s : Store!Entered(s) = Entered(s)
    BY <1>3 DEF Store!Entered, Entered
<1>5. \A s, token : Store!MayExit(s, token) = MayExit(s, token)
    BY <1>1 DEF Store!MayExit, MayExit, Store!OpenForDecision, OpenForDecision,
                Store!TokenFits, TokenFits
<1>6. \A s : Store!Exited(s) = Exited(s)
    BY <1>2 DEF Store!Exited, Exited
<1>7. \A s, q : Store!QuestionAsked(s, q) = QuestionAsked(s, q)
    BY <1>3 DEF Store!QuestionAsked, QuestionAsked
<1>8. \A s, q : Store!HasQuestion(s, q) = HasQuestion(s, q)
    BY DEF Store!HasQuestion, HasQuestion
<1>9. \A s : Store!QuestionCleared(s) = QuestionCleared(s)
    BY DEF Store!QuestionCleared, QuestionCleared
<1> QED
    BY <1>1, <1>4, <1>5, <1>6, <1>7, <1>8, <1>9

Bounded == Len(asked) <= MaxQuestions

(* No more questions are asked than the bound says.                        *)
LEMMA AskedBounded == Spec => []Bounded
<1>1. Init => Bounded
    BY DEF Init, Bounded
<1>2. IInv /\ Bounded /\ [Next]_vars => Bounded'
    <2> SUFFICES ASSUME IInv, Bounded, [Next]_vars, asked' # asked
                 PROVE  Len(asked') <= MaxQuestions
        BY DEF Bounded
    <2>1. PICK question \in Questions :
              asked' = Append(asked, question) /\ Len(asked) < MaxQuestions
        BY DEF Next, vars, Proceed, EnterPlanMode, CancelPlan, AskUnpersisted, Ask,
               Click, Command, Sidebar, MintTokens, Delivered, Undelivered,
               CheckClick, Enqueue, Clear, AwaitFails, Expire, Drain, Restart
    <2>2. Len(asked') = Len(asked) + 1 /\ Len(asked) \in Nat
        BY <2>1 DEF IInv, TypeOK
    <2> QED
        BY <2>1, <2>2
<1> QED
    BY <1>1, <1>2, Invariance, PTL DEF Spec

(* Every step is one store call, or leaves the payload alone.              *)
LEMMA StepsByStore ==
    IInv /\ Bounded /\ [Next]_vars => [Store!Step]_session
<1> SUFFICES ASSUME IInv, Bounded, [Next]_vars, ~UNCHANGED session
             PROVE  Store!Step
    OBVIOUS
<1>1. CASE EnterPlanMode
    BY <1>1, SameOperators DEF EnterPlanMode, Store!Step, Store!EnterPlanMode
<1>2. CASE CancelPlan
    <2>1. Store!ExitPlanMode(NoId)
        BY <1>2, SameOperators DEF CancelPlan, Store!ExitPlanMode
    <2>2. NoId \in Store!Tokens
        BY DEF Store!Tokens, Store!NoId, NoId
    <2> QED
        BY <2>1, <2>2 DEF Store!Step
<1>3. ASSUME NEW h \in Handlers, NEW question \in Questions, Ask(h, question)
      PROVE  Store!Step
    <2>1. Len(asked) + 1 \in 1 .. MaxQuestions
        BY <1>3 DEF Ask, IInv, TypeOK
    <2>2. Store!PersistPendingQuestion(Len(asked) + 1)
        BY <1>3, SameOperators DEF Ask, Store!PersistPendingQuestion
    <2> QED
        BY <2>1, <2>2 DEF Store!Step
<1>4. ASSUME NEW h \in Handlers, Clear(h)
      PROVE  Store!Step
    <2> DEFINE q == handler[h].question
    <2>1. HasQuestion(session, q) /\ session' = QuestionCleared(session)
        BY <1>4 DEF Clear, ExpectedQuestion
    <2>2. Store!ClearPendingQuestion(q)
        BY <2>1, SameOperators DEF Store!ClearPendingQuestion
    <2>3. q \in 1 .. MaxQuestions
        <3>1. q \in Ids
            BY <1>4 DEF Clear, IInv, HandlersSound, LocalsSound
        <3>2. Len(asked) \in Nat
            BY DEF IInv, TypeOK
        <3> HIDE DEF q
        <3> QED
            BY <3>1, <3>2 DEF Ids, Bounded
    <2> HIDE DEF q
    <2> QED
        BY <2>2, <2>3 DEF Store!Step
<1> QED
    BY <1>1, <1>2, <1>3, <1>4
    DEF Next, vars, Proceed, AskUnpersisted, Click, Command, Sidebar, MintTokens,
        Delivered, Undelivered, CheckClick, Enqueue, AwaitFails, Expire, Drain,
        Restart

(* PlanQuestions implements PlanModeStore.                                 *)
THEOREM ImplementsStore == Spec => StorePromise
<1>1. Init => Store!Init
    BY DEF Init, Store!Init
<1> QED
    BY <1>1, StepsByStore, AskedBounded, Invariance, PTL
    DEF Spec, StorePromise, Store!Promise
=============================================================================
