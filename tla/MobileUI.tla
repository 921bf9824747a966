------------------------------ MODULE MobileUI ------------------------------
(***************************************************************************)
(* The page (app/assets/js/ui.js) over its engine: which commands a user   *)
(* can give when, and what the events of the engine do to the composer and *)
(* the thread.                                                             *)
(*                                                                         *)
(* The page is one JavaScript thread with localStorage: what follows an    *)
(* await of the store is a microtask, and runs before the next click or    *)
(* timer.  Only a kill of the process comes between.                       *)
(***************************************************************************)
EXTENDS CoreEngine

VARIABLES
  composer,   \* the send button and the input are enabled
  thread,     \* the messages shown, in order (a card shows a turn's reply)
  card,       \* activeAssistantCard: the turn whose card it is
  clearing,   \* a click on "new session" has its clearThread() to run
  base        \* history: how much of the conversation was there at launch

uiVars == <<composer, thread, card, clearing, base>>

Calm == ready /\ saves = 0 /\ ~clearing /\ \A t \in Turns : pc[t] \notin {"saving", "saved"}

\* Mutant: the events up to turn_start leave the composer enabled.
SendLeavesComposer(t) ==
  /\ Calm /\ composer
  /\ Prompt(t)
  /\ thread' = thread \o <<User(t), Reply(t)>>
  /\ card' = t
  /\ UNCHANGED <<composer, clearing, base>>

\* handleSend: the prompt's bubble, turn_start, and the card of its reply.
Send(t) ==
  /\ Calm /\ composer
  /\ Prompt(t)
  /\ thread' = thread \o <<User(t), Reply(t)>>
  /\ composer' = FALSE
  /\ card' = t
  /\ UNCHANGED <<clearing, base>>

ChooseModel(p) == Calm /\ SetPrefs(p) /\ UNCHANGED uiVars

\* Mutant: the thread is not cleared.
ClickKeepsThread ==
  /\ Calm
  /\ NewSession
  /\ base' = 0
  /\ UNCHANGED <<composer, thread, card, clearing>>

\* The thread is cleared when the command has been dispatched and saved.
ClickNewSession ==
  /\ Calm
  /\ NewSession
  /\ clearing' = (saves' > saves)
  /\ base' = 0
  /\ UNCHANGED <<composer, thread, card>>

\* Mutant: the card of a running turn is forgotten with the thread.
ClearThreadAndCard ==
  /\ clearing /\ saves = 0
  /\ \/ thread' = <<>> /\ card' = NoTurn
     \/ StorageFails /\ UNCHANGED <<thread, card>>
  /\ clearing' = FALSE
  /\ UNCHANGED <<vars, composer, base>>

\* When the second write was refused the command rejects: nothing is cleared.
ClearThread ==
  /\ clearing /\ saves = 0
  /\ thread' = <<>> \/ (StorageFails /\ UNCHANGED thread)
  /\ clearing' = FALSE
  /\ UNCHANGED <<vars, composer, card, base>>

\* A timer of the turn: a delta goes to the active card, whoever sent it.
Delta(t) == Calm /\ (Token(t) \/ FinishTurn(t)) /\ UNCHANGED uiVars

Settle == (CommandSaved \/ \E t \in Turns : TurnSaved(t)) /\ UNCHANGED uiVars

\* Mutant: turn_end forgets the composer.
TurnEndKeepsComposer(t) ==
  /\ EndTurn(t)
  /\ card' = NoTurn
  /\ UNCHANGED <<composer, thread, clearing, base>>

TurnEnd(t) ==
  /\ EndTurn(t)
  /\ composer' = TRUE
  /\ card' = NoTurn
  /\ UNCHANGED <<thread, clearing, base>>

\* init(): the page does not ask for the messages the engine restored.
LoadPage ==
  /\ Boot
  /\ base' = Len(messages')
  /\ UNCHANGED <<composer, thread, card, clearing>>

Kill ==
  /\ Restart
  /\ composer' = TRUE
  /\ thread' = <<>>
  /\ card' = NoTurn
  /\ clearing' = FALSE
  /\ base' = 0

UIInit ==
  /\ Init
  /\ composer = TRUE
  /\ thread = <<>>
  /\ card = NoTurn
  /\ clearing = FALSE
  /\ base = 0

UINext ==
  \/ \E t \in Turns : Send(t)
  \/ \E p \in Prefs : ChooseModel(p)
  \/ ClickNewSession
  \/ ClearThread
  \/ \E t \in Turns : Delta(t)
  \/ Settle
  \/ \E t \in Turns : TurnEnd(t)
  \/ LoadPage
  \/ Kill

uiAll  == <<vars, uiVars>>
UISpec == UIInit /\ [][UINext]_uiAll

\* Microtasks run, and a timer that is due gets its turn in the event loop
\* although microtasks hold it up now and then; the user need not act.
FairUISpec ==
  /\ UISpec
  /\ \A t \in Turns : SF_uiAll(Delta(t)) /\ WF_uiAll(TurnEnd(t))
  /\ WF_uiAll(Settle) /\ WF_uiAll(ClearThread) /\ WF_uiAll(LoadPage)

-----------------------------------------------------------------------------
UITypeOK ==
  /\ TypeOK
  /\ composer \in BOOLEAN
  /\ thread \in Seq(Message)
  /\ card \in Turns \cup {NoTurn}
  /\ clearing \in BOOLEAN
  /\ base \in Nat

\* The engine lets prompts overlap (index.ts:174); the composer does not:
\* until its turn is saved and over, a prompt is alone.
OneTurnAtATime == \A t, u \in InFlight : t = u

\* What a turn streams goes into its own card (deltas are not matched by
\* message id, ui.js:146-158), even after the thread was cleared under it.
StreamsIntoOwnCard == [][\A t \in Turns : left'[t] < left[t] => card = t]_uiAll

\* In every record a reply comes right after its prompt, unless its session
\* was replaced under it: no two turns are ever mixed.
RepliesFollowPrompts ==
  \A s \in DOMAIN rec : \A i \in DOMAIN rec[s].messages : \A t \in Turns \ cut :
    rec[s].messages[i] = Reply(t) =>
      /\ i > 1
      /\ rec[s].messages[i - 1] = User(t)

\* Between turns the thread shows what was said since the launch, whatever
\* sessions were opened; a reply that outlived its session is the exception.
ThreadShowsConversation ==
  (/\ Calm /\ InFlight = {} /\ ~StorageFails
   /\ \A t \in cut : ~In(Reply(t), messages))
    => thread = SubSeq(messages, base + 1, Len(messages))

\* The composer comes back: no sequence of prompts, session changes, model
\* changes and restarts locks the user out for good.
ComposerReturns == ~composer ~> composer
=============================================================================
