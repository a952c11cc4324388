-------------------------------- MODULE Council --------------------------------
(***************************************************************************)
(* A task whose context is a council (council.py, scheduler.py): what the  *)
(* loader lets pass, whether the scheduler convenes the council, and the   *)
(* discussion, one call of a model after another.  A response is known by  *)
(* who gave it and when; its text is an answer or the notice of a failed   *)
(* call, which everybody takes for an answer.                              *)
(***************************************************************************)
EXTENDS Integers, SequencesExt

CONSTANTS
  CouncilTasks,   \* task: mode, sources (context_from), council
  NoRole, NoModel

ASSUME CouncilAssumption ==
  \A t \in CouncilTasks : t.council.participants \in Seq(ToSet(t.council.participants))

Star == "star"
Chain == "chain"
Graph == "graph"
NoCouncil == [participants |-> <<>>]
Consolidator == 0

VARIABLES
  sitting,      \* the task
  turn,         \* start, asking, consolidating, over
  roundNum, seat,
  spoken,       \* result.rounds: per round, who answered under which key
  sofar,      \* the round in hand
  toldOf,       \* history: what each call was shown, as a set of responses
  agreed    \* the response that becomes the context, or none
councilVars == <<sitting, turn, roundNum, seat, spoken, sofar, toldOf, agreed>>

Panel == sitting.council.participants
Topology == sitting.council.topology
Nobody == [by |-> -1, round |-> 0, text |-> "none"]

\* the role, or the engine and the model
RoleKey(p) == IF p.role # NoRole THEN <<p.role>> ELSE <<p.engine, p.model>>

-----------------------------------------------------------------------------
(* The loader *)

ConnectionsKnown(c) ==
  LET roles == {c.participants[i].role : i \in DOMAIN c.participants}
  IN DOMAIN c.connections \subseteq roles /\ \A r \in DOMAIN c.connections : c.connections[r] \subseteq roles

ToCouncilSpec(c) ==
  /\ Len(c.participants) >= 2
  /\ c.rounds \in 1 .. 5
  /\ c.topology \in {Star, Chain, Graph}
  /\ ConnectionsKnown(c)
  /\ c.topology = Graph => /\ DOMAIN c.connections # {}
                           /\ \A i \in DOMAIN c.participants : c.participants[i].role # NoRole

CouncilAccepted(t) ==
  /\ t.council # NoCouncil => ToCouncilSpec(t.council)
  /\ (t.mode = "council") <=> (t.council # NoCouncil)

-----------------------------------------------------------------------------
(* What a participant is shown *)

Discussion(rounds) == UNION {{r[k] : k \in DOMAIN r} : r \in ToSet(rounds)}
\* mutant: only the last round is put before the participants
LastRoundOnly(rounds) == IF rounds = <<>> THEN {} ELSE {Last(rounds)[k] : k \in DOMAIN Last(rounds)}

BuildRoundPrompt == Discussion(spoken)
BuildConsolidationPrompt == Discussion(spoken)
BuildGraphRoundPrompt(p) ==
  LET peers == IF p.role \in DOMAIN sitting.council.connections THEN sitting.council.connections[p.role] ELSE {}
  IN UNION {{r[k] : k \in {k \in DOMAIN r : k \in {<<peer>> : peer \in peers}}} : r \in ToSet(spoken)}
BuildChainPrompt == IF seat = 1 THEN {} ELSE {sofar[RoleKey(Panel[seat - 1])]}

\* mutant: the chain shows what the whole chain has said
ShownAll(p) ==
  IF Topology = Graph THEN BuildGraphRoundPrompt(p)
  ELSE IF Topology = Chain THEN {sofar[k] : k \in DOMAIN sofar} ELSE BuildRoundPrompt
Shown(p) ==
  IF Topology = Graph THEN BuildGraphRoundPrompt(p)
  ELSE IF Topology = Chain THEN BuildChainPrompt ELSE BuildRoundPrompt

-----------------------------------------------------------------------------
CouncilInit ==
  /\ sitting \in {t \in CouncilTasks : CouncilAccepted(t)}
  /\ turn = "start" /\ roundNum = 1 /\ seat = 1 /\ spoken = <<>> /\ sofar = <<>>
  /\ toldOf = <<>> /\ agreed = Nobody

\* The council is one of the branches taken only for a task that names
\* sources, or whose mode reads the workspace.
BuildsContext == sitting.sources # {} \/ sitting.mode \in {"codebase_map", "scip"}

Convene ==
  /\ turn = "start" /\ BuildsContext /\ sitting.council # NoCouncil
  /\ turn' = "asking"
  /\ UNCHANGED <<sitting, roundNum, seat, spoken, sofar, toldOf, agreed>>

\* the task goes to the pool without
GoWithout ==
  /\ turn = "start" /\ ~(BuildsContext /\ sitting.council # NoCouncil)
  /\ turn' = "over"
  /\ UNCHANGED <<sitting, roundNum, seat, spoken, sofar, toldOf, agreed>>

\* A command that cannot be built, no answer in time, no executable, any other
\* error: a notice instead of an answer.  What it costs is only reported.
CallParticipant(who) == [by : {who}, round : {roundNum}, text : {"answer", "notice"}]

NextSeat ==
  LET rounds == Append(spoken, sofar')
      last == roundNum = sitting.council.rounds
  IN IF seat < Len(Panel)
       THEN seat' = seat + 1 /\ UNCHANGED <<turn, roundNum, spoken, agreed>>
     ELSE /\ spoken' = rounds /\ seat' = 1
          /\ IF Topology = Chain
               THEN turn' = "over" /\ agreed' = sofar'[RoleKey(Panel[seat])] /\ UNCHANGED roundNum
             ELSE /\ turn' = IF last THEN "consolidating" ELSE "asking"
                  /\ roundNum' = IF last THEN roundNum ELSE roundNum + 1
                  /\ UNCHANGED agreed

\* One call; two participants with the same key leave one response.
AskParticipant ==
  /\ turn = "asking"
  /\ LET held == IF seat = 1 THEN <<>> ELSE sofar
         key == RoleKey(Panel[seat])
         shown == Shown(Panel[seat])
     IN \E said \in CallParticipant(seat) :
          /\ sofar' = [k \in DOMAIN held \cup {key} |-> IF k = key THEN said ELSE held[k]]
          /\ toldOf' = Append(toldOf, [who |-> seat, round |-> roundNum, shown |-> shown])
  /\ NextSeat
  /\ UNCHANGED sitting

Consolidate ==
  /\ turn = "consolidating"
  /\ agreed' \in CallParticipant(Consolidator)
  /\ toldOf' = Append(toldOf, [who |-> Consolidator, round |-> roundNum, shown |-> BuildConsolidationPrompt])
  /\ turn' = "over"
  /\ UNCHANGED <<sitting, roundNum, seat, spoken, sofar>>

CouncilNext == Convene \/ GoWithout \/ AskParticipant \/ Consolidate
CouncilSpec == CouncilInit /\ [][CouncilNext]_councilVars

-----------------------------------------------------------------------------
(* What each kind of council promises, said of the calls and not of the      *)
(* dictionaries: who should hear whom. *)

Namesakes(i) == {j \in DOMAIN Panel : RoleKey(Panel[j]) = RoleKey(Panel[i])}
Voice(i) == \A j \in Namesakes(i) : j <= i   \* the one whose response is kept
MayHear(who, i) ==
  \/ who = Consolidator \/ Topology = Star
  \/ Topology = Chain /\ i = who - 1
  \/ Topology = Graph /\ LET c == sitting.council.connections
                         IN Panel[who].role \in DOMAIN c /\ Panel[i].role \in c[Panel[who].role]

\* Every call is shown one response of each voice it may hear and of no other,
\* from every round that has ended, or in a chain from the one before it; the
\* synthesis comes from the last call, and a council makes one call per seat
\* and round, and one more unless it is a chain (docs/PLAN_GUIDE.md:655-657).
VoicesHeard ==
  /\ \A n \in DOMAIN toldOf :
       LET told == toldOf[n]
           earlier == IF Topology = Chain THEN {told.round} ELSE
                      IF told.who = Consolidator THEN 1 .. told.round ELSE 1 .. told.round - 1
       IN {<<s.by, s.round>> : s \in told.shown} =
            {v \in (DOMAIN Panel) \X earlier :
               MayHear(told.who, v[1]) /\ (Voice(v[1]) \/ Topology = Chain)}
  /\ turn = "over" /\ agreed # Nobody =>
       /\ agreed.by = Last(toldOf).who
       /\ Len(toldOf) = IF Topology = Chain THEN Len(Panel) ELSE Len(Panel) * sitting.council.rounds + 1

\* "Multi-model deliberation before task execution. [...] The consolidated
\* output becomes the context for the main task." (docs/PLAN_GUIDE.md:588):
\* a task with a council is not started without its synthesis.
CouncilConvened == turn = "over" /\ sitting.mode = "council" => agreed # Nobody
=============================================================================
