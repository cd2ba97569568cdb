----------------------------- MODULE QuickButtons -----------------------------
(***************************************************************************)
(* The buttons offered below the messages of a workspace                    *)
(* (src/lib/quick-buttons.ts): phrases found in the last message of the AI    *)
(* and, on the card, actions a language model suggests.  The analysis runs   *)
(* after a load of messages; the page (web/workspace-home.ts) never asks the   *)
(* model, the card (kanban-watcher-card.ts) does when it is configured to.    *)
(*                                                                         *)
(* A message is what the patterns find in it, in the order they are tried.   *)
(* Two spellings of a phrase that are cleaned to the same text are two        *)
(* phrases with the same Clean.  Messages have different hashes.              *)
(***************************************************************************)
EXTENDS Integers, Sequences, SequencesExt, FiniteSets

CONSTANTS
    Phrase,
    Clean,         \* what is left of a phrase: quotes, end marks, numerals
    Long,          \* phrases that are empty or longer than twenty characters
    Forbidden,     \* phrases that hold a forbidden action
    Message,       \* messages of the AI
    Parts,         \* what is found in one: [named, listed, lettered, inline, proposal]
    Reply,         \* what the model may answer: [extracted, suggested]
    None,
    MaxAsks        \* questions to the model

ButtonsAssumption ==
    /\ Clean \in [Phrase -> Phrase] /\ Long \cup Forbidden \subseteq Phrase
    /\ \A m \in Message : Parts[m].proposal \in BOOLEAN
    /\ None \notin Message /\ MaxAsks \in Nat

VARIABLES
    llm,           \* llm_enabled of the card; the page has it off
    running,       \* the workspace is running
    last,          \* the last message of the AI the list of messages holds
    offered,       \* extractedButtons and suggestedButtons of the workspace
    hash,          \* dynamicButtonsMessageHashByWorkspace: the message analysed
    asks,          \* the messages the model was asked about and has not answered
    asked,
    stale          \* history: the list changed and no analysis of it followed, or
                   \* an answer came for another message than the last

buttonVars == <<llm, running, last, offered, hash, asks, asked, stale>>

-----------------------------------------------------------------------------
(* What the patterns find *)

Cleaned(list) == [i \in DOMAIN list |-> Clean[list[i]]]

IsValid(phrase) == phrase \notin Long
Valid(list) == SelectSeq(list, IsValid)

Firsts(list, n) == SubSeq(list, 1, IF Len(list) < n THEN Len(list) ELSE n)

(* A Set keeps the place a value was first added at. *)
Distinct(list) ==
    FoldLeft(LAMBDA found, x : IF Contains(found, x) THEN found ELSE Append(found, x), <<>>, list)

(* extractDynamicButtons *)
Extracted(m) ==
    LET found == Parts[m] IN
    Firsts(Distinct(Cleaned(found.named) \o Valid(Cleaned(found.listed))
                    \o Cleaned(found.lettered) \o Valid(Cleaned(found.inline))), 5)

IsAllowed(phrase) == phrase \notin Forbidden
Allowed(list) == SelectSeq(list, IsAllowed)

Plain(m) == [extracted |-> Valid(Allowed(Extracted(m))), suggested |-> <<>>]

\* detectMessageType
IsProposal(m) == Parts[m].proposal

(* getQuickButtonsWithLLM.  The model extracts phrases from a proposal only; an
   answer that suggests nothing counts as no answer. *)
WithReply(m, reply) ==
    LET suggested == Allowed(Firsts(Valid(reply.suggested), 3))
        extracted == Firsts(Valid(reply.extracted), 3)
    IN  IF suggested = <<>> THEN Plain(m)
        ELSE [suggested |-> suggested,
              extracted |-> IF ~IsProposal(m) THEN <<>>
                            ELSE IF extracted # <<>> THEN extracted
                            ELSE Plain(m).extracted]

-----------------------------------------------------------------------------
(* When it is analysed *)

Nothing == [extracted |-> <<>>, suggested |-> <<>>]

ButtonsInit ==
    /\ llm \in BOOLEAN /\ running \in BOOLEAN
    /\ last = None /\ offered = Nothing /\ hash = None
    /\ asks = <<>> /\ asked = 0 /\ stale = FALSE

\* Mutant: a workspace that was analysed once is not analysed again.
IsCached_Once(m) == hash # None

IsCached(m) == hash = m

\* The list holds no message of the AI.
Forget == offered' = Nothing /\ hash' = None /\ UNCHANGED <<asks, asked>>

(* What the page does, and a card that asks no model *)
OfferPlain(m) == offered' = Plain(m) /\ hash' = m /\ UNCHANGED <<asks, asked>>

(* The card asks, with the last three messages and the rules. *)
AskModel(m) ==
    /\ asked < MaxAsks /\ asked' = asked + 1
    /\ asks' = Append(asks, m) /\ UNCHANGED <<offered, hash>>

(* analyzeDynamicButtons of the card and of the page *)
Analyse(m) ==
    /\ stale' = FALSE
    /\ IF m = None THEN Forget
       ELSE IF IsCached(m) THEN UNCHANGED <<offered, hash, asks, asked>>
       ELSE IF llm THEN AskModel(m) ELSE OfferPlain(m)

(* A load comes in: a running workspace is not analysed. *)
Load(m) ==
    /\ last' = m
    /\ IF running
        THEN /\ stale' = (stale \/ m # last)
             /\ UNCHANGED <<offered, hash, asks, asked>>
        ELSE Analyse(m)
    /\ UNCHANGED <<llm, running>>

(* A frame with a message does not start an analysis. *)
Frame(m) ==
    /\ m # None /\ m # last /\ last' = m /\ stale' = TRUE
    /\ UNCHANGED <<llm, running, offered, hash, asks, asked>>

StatusChanges ==
    /\ running' = ~running
    /\ UNCHANGED <<llm, last, offered, hash, asks, asked, stale>>

(* The model answers, or fails or takes longer than ten seconds: an empty reply. *)
Answered(i, reply) ==
    /\ i \in DOMAIN asks
    /\ offered' = WithReply(asks[i], reply) /\ hash' = asks[i]
    /\ stale' = (asks[i] # last)
    /\ asks' = RemoveAt(asks, i)
    /\ UNCHANGED <<llm, running, last, asked>>

ButtonsNext ==
    \/ \E m \in Message \cup {None} : Load(m)
    \/ \E m \in Message : Frame(m)
    \/ StatusChanges
    \/ \E i \in 1 .. MaxAsks, reply \in Reply : Answered(i, reply)

ButtonsSpec == ButtonsInit /\ [][ButtonsNext]_buttonVars

-----------------------------------------------------------------------------
(* When the model owes no answer and the list has not changed since its last
   analysis, what is offered was found in or suggested for the last message. *)
ButtonsBelong ==
    asks = <<>> /\ ~stale =>
        /\ hash = last
        /\ IF last = None THEN offered = Nothing
           ELSE offered = Plain(last) \/ \E reply \in Reply : offered = WithReply(last, reply)
=============================================================================
