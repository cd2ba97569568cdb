--------------------------- MODULE CreateWorkspace ---------------------------
(***************************************************************************)
(* The dialog of the dashboard card that creates a workspace                *)
(* (src/kanban-watcher-card.ts): the form, and the requests that fill it in. *)
(*                                                                         *)
(* A choice of an agent asks for its presets and models, a preset for its   *)
(* options, and what an answer says replaces what the form holds by then.   *)
(* Requests are answered in any order.  A target stands for a repository    *)
(* with a branch; the name and the prompt of the workspace are left out: an  *)
(* empty name is refused with a message and changes nothing.                *)
(***************************************************************************)
EXTENDS Integers, Sequences, SequencesExt

CONSTANTS
    Issue, Agent, Target,
    Usual,         \* the agent the form starts with (CLAUDE_CODE)
    Preferred,     \* the repository with a default branch or a server script
    Silent,        \* agents whose presets name no model
    None,
    MaxCalls,      \* requests
    MaxLost        \* requests that fail

CreateAssumption ==
    /\ Usual \in Agent /\ Preferred \in Target /\ Silent \subseteq Agent
    /\ None \notin Issue \cup Agent \cup Target
    /\ {MaxCalls, MaxLost} \subseteq Nat

VARIABLES
    open,          \* createWorkspaceOpen
    issue,         \* createWorkspaceIssueId with its project
    agent, variant, model, target,      \* what the form says
    offered,       \* the agent whose presets the form offers
    models,        \* the agent whose models it offers
    calls, called, lost,
    made,          \* server: the workspaces, each with the issues it is linked to
    stale          \* history: since the agent was chosen an answer failed, or
                   \* came that was asked for another agent

offers == <<offered, models>>
choices == <<agent, variant, model, target, offers>>
network == <<calls, called, lost>>
createVars == <<open, issue, choices, network, made, stale>>

(* A preset of an agent; the form starts with one that is no agent's. *)
Preset(a, n) == [of |-> a, n |-> n]
Plain == Preset(None, 1)

CreateInit ==
    /\ open = FALSE /\ issue = None
    /\ agent = Usual /\ variant = Plain /\ model = None /\ target = None
    /\ offered = None /\ models = None
    /\ calls = <<>> /\ called = 0 /\ lost = 0 /\ made = <<>> /\ stale = FALSE

-----------------------------------------------------------------------------
(* Requests *)

Ask(others, new) ==
    /\ called + Len(new) =< MaxCalls
    /\ calls' = others \o new /\ called' = called + Len(new)

PresetsOf(a) == [op |-> "presets", of |-> a]
OptionsOf(a, v) == [op |-> "options", of |-> a, for |-> v]

Rest(i) == RemoveAt(calls, i)

IsOp(i, op) == i \in DOMAIN calls /\ calls[i].op = op

-----------------------------------------------------------------------------
(* What the user does *)

OpenDialog(for) ==
    /\ ~open
    /\ open' = TRUE /\ issue' = for /\ stale' = FALSE
    /\ Ask(calls, <<PresetsOf(agent), [op |-> "repos"]>>)
    /\ UNCHANGED <<choices, lost, made>>

(* The offers of the presets stay, those of the repositories go. *)
Cleared ==
    /\ open' = FALSE /\ issue' = None
    /\ agent' = Usual /\ variant' = Plain /\ model' = None /\ target' = None
    /\ UNCHANGED offers

CancelDialog ==
    /\ open /\ Cleared
    /\ UNCHANGED <<network, made, stale>>

\* Mutant: only a reopened dialog asks for the presets of its agent.
ChooseAgent_Quiet(a) ==
    /\ open /\ a # agent
    /\ agent' = a /\ stale' = FALSE
    /\ UNCHANGED <<open, issue, variant, model, target, offers, network, made>>

ChooseAgent(a) ==
    /\ open /\ a # agent
    /\ agent' = a /\ stale' = FALSE
    /\ Ask(calls, <<PresetsOf(a)>>)
    /\ UNCHANGED <<open, issue, variant, model, target, offers, lost, made>>

(* The form offers what it was last told of, and asks with the agent chosen. *)
ChooseVariant(n) ==
    /\ open /\ variant # Preset(offered, n)
    /\ variant' = Preset(offered, n)
    /\ Ask(calls, <<OptionsOf(agent, Preset(offered, n))>>)
    /\ UNCHANGED <<open, issue, agent, model, target, offers, lost, made, stale>>

ChooseModel(m) ==
    /\ open /\ m \in {models, None} /\ m # model
    /\ model' = m
    /\ UNCHANGED <<open, issue, agent, variant, target, offers, network, made, stale>>

ChooseTarget(t) ==
    /\ open /\ target # None /\ t # target
    /\ target' = t
    /\ UNCHANGED <<open, issue, agent, variant, model, offers, network, made, stale>>

(* Nothing stops a second click while the first is under way. *)
Create ==
    /\ open
    /\ Ask(calls, <<[op |-> "create", issue |-> issue, agent |-> agent, model |-> model,
                     target |-> target]>>)
    /\ UNCHANGED <<open, issue, choices, lost, made, stale>>

-----------------------------------------------------------------------------
(* Answers *)

PresetsArrive(i) ==
    /\ IsOp(i, "presets")
    /\ LET of == calls[i].of IN
        /\ offered' = of /\ models' = of /\ variant' = Preset(of, 1)
        /\ Ask(Rest(i), <<OptionsOf(of, Preset(of, 1))>>)
        /\ stale' = (stale \/ of # agent)
    /\ UNCHANGED <<open, issue, agent, model, target, lost, made>>

ModelTold(a) == IF a \in Silent THEN model ELSE a

(* A preset the agent does not know is answered with the first one it has. *)
OptionsArrive(i) ==
    /\ IsOp(i, "options")
    /\ LET of == calls[i].of  v == calls[i].for IN
        /\ model' = ModelTold(of)
        /\ variant' = IF v.of = of THEN v ELSE Preset(of, 1)
        /\ stale' = (stale \/ of # agent)
    /\ calls' = Rest(i)
    /\ UNCHANGED <<open, issue, agent, target, offers, called, lost, made>>

(* It replaces a choice made meanwhile, and fills in a form that was closed. *)
ReposArrive(i) ==
    /\ IsOp(i, "repos")
    /\ target' = Preferred /\ calls' = Rest(i)
    /\ UNCHANGED <<open, issue, agent, variant, model, offers, called, lost, made, stale>>

(* The issue it is linked to by a second request is the one of the form by now. *)
CreateAnswered(i) ==
    /\ IsOp(i, "create")
    /\ LET w == Len(made) + 1 IN
        /\ made' = Append(made, {calls[i].issue} \ {None})
        /\ IF issue = None
            THEN /\ Cleared /\ calls' = Rest(i) /\ UNCHANGED called
            ELSE /\ Ask(Rest(i), <<[op |-> "link", to |-> w, issue |-> issue]>>)
                 /\ UNCHANGED <<open, issue, agent, variant, model, target, offers>>
    /\ UNCHANGED <<lost, stale>>

Linked(i) ==
    /\ IsOp(i, "link")
    /\ made' = [made EXCEPT ![calls[i].to] = @ \cup {calls[i].issue}]
    /\ Cleared /\ calls' = Rest(i)
    /\ UNCHANGED <<called, lost, stale>>

(* A link that fails is not told; presets that fail are replaced by three names. *)
CallFails(i) ==
    /\ i \in DOMAIN calls /\ lost < MaxLost
    /\ lost' = lost + 1 /\ calls' = Rest(i)
    /\ stale' = (stale \/ calls[i].op \in {"presets", "options"})
    /\ IF calls[i].op = "link"
        THEN Cleared
        ELSE /\ offered' = (IF calls[i].op = "presets" THEN None ELSE offered)
             /\ UNCHANGED <<open, issue, agent, variant, model, target, models>>
    /\ UNCHANGED <<called, made>>

CreateNext ==
    \/ \E x \in Issue \cup {None} : OpenDialog(x)
    \/ \E a \in Agent : ChooseAgent(a)
    \/ \E n \in {1, 2} : ChooseVariant(n)
    \/ \E m \in Agent \cup {None} : ChooseModel(m)
    \/ \E t \in Target : ChooseTarget(t)
    \/ CancelDialog \/ Create
    \/ \E i \in 1 .. MaxCalls :
        \/ PresetsArrive(i) \/ OptionsArrive(i) \/ ReposArrive(i)
        \/ CreateAnswered(i) \/ Linked(i) \/ CallFails(i)

CreateSpec == CreateInit /\ [][CreateNext]_createVars

-----------------------------------------------------------------------------
(* When no preset or option is under way and none failed or came for another
   agent since the agent was chosen, the dialog offers the presets of the agent
   it shows, has chosen one of them, and starts the workspace with one of its
   models or with the default, unless the agent's presets name no model: then
   the model of the agent before it may have stayed. *)
FormFollowsAgent ==
    open /\ ~stale /\ (\A i \in DOMAIN calls : calls[i].op \notin {"presets", "options"})
        => /\ offered = agent /\ models = agent /\ variant.of = agent
           /\ agent \in Silent \/ model \in {agent, None}
=============================================================================
