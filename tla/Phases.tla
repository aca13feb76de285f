------------------------------- MODULE Phases -------------------------------
(***************************************************************************)
(* The state machines the examples declare, as values MachineDefinition    *)
(* describes.  None of their events carries a payload.                     *)
(***************************************************************************)
EXTENDS MachineDefinition

Event(v) == <<v, DefaultPayload>>

Table(triples) ==
  [se \in {<<t[1], Event(t[2])>> : t \in triples} |->
     (CHOOSE t \in triples : t[1] = se[1] /\ Event(t[2]) = se[2])[3]]

\* A mark that names no kind restricts nothing, and neither does one that does
\* not parse.
RestrictionArms(marks) ==
  [s \in {x \in DOMAIN marks : marks[x] # {}} |-> marks[s]]

NoMarks == [x \in {} |-> {}]

Enum(states, initial, terminal, events, triples) ==
  [states |-> states, initial |-> initial, terminal |-> terminal,
   restriction |-> RestrictionArms(NoMarks), kinds |-> NoMarks,
   events |-> {Event(v) : v \in events}, transition |-> Table(triples)]

\* release-pipeline: from a draft to a release that is live, and out of it.
Release ==
  LET marks == [AwaitingApproval |-> {"operator"}, Deploying |-> {"external"}]
      eventKinds == [Approve |-> {"operator"}, Reject |-> {"operator"},
                     DeploySucceeded |-> {"external"}, DeployFailed |-> {"external"}]
  IN [Enum({"Draft", "Building", "Testing", "AwaitingApproval", "Deploying",
            "Live", "Failed", "RolledBack", "Retired"},
           "Draft", {"Failed", "RolledBack", "Retired"},
           {"Submit", "BuildOk", "BuildFailed", "TestsPassed", "TestsFailed", "Approve",
            "Reject", "DeploySucceeded", "DeployFailed", "Rollback", "Retire"},
           {<<"Draft", "Submit", "Building">>,
            <<"Building", "BuildOk", "Testing">>,
            <<"Building", "BuildFailed", "Failed">>,
            <<"Testing", "TestsPassed", "AwaitingApproval">>,
            <<"Testing", "TestsFailed", "Failed">>,
            <<"AwaitingApproval", "Approve", "Deploying">>,
            <<"AwaitingApproval", "Reject", "Failed">>,
            <<"Deploying", "DeploySucceeded", "Live">>,
            <<"Deploying", "DeployFailed", "RolledBack">>,
            <<"Live", "Rollback", "RolledBack">>,
            <<"Live", "Retire", "Retired">>})
      EXCEPT !.restriction = RestrictionArms(marks), !.kinds = eventKinds]

\* The phase of an aggregate restricts the aggregate's commands, and its own
\* steps carry no kind: `apply` would refuse a step out of a restricted phase,
\* and it is only `transition` that the aggregate layer asks.

AccountPhase ==
  Enum({"Open", "Frozen", "Closed"}, "Open", {"Closed"}, {"Freeze", "Unfreeze", "Close"},
       {<<"Open", "Freeze", "Frozen">>, <<"Frozen", "Unfreeze", "Open">>,
        <<"Open", "Close", "Closed">>, <<"Frozen", "Close", "Closed">>})

ChestPhase ==
  [Enum({"Sealed", "Open", "Spent"}, "Sealed", {"Spent"}, {"Unseal", "Exhaust"},
        {<<"Sealed", "Unseal", "Open">>, <<"Open", "Exhaust", "Spent">>})
   EXCEPT !.restriction = RestrictionArms([Open |-> {"loot"}])]

MatchPhase ==
  [Enum({"Setup", "Playing", "Resolved"}, "Setup", {"Resolved"}, {"Start", "Finish"},
        {<<"Setup", "Start", "Playing">>, <<"Playing", "Finish", "Resolved">>})
   EXCEPT !.restriction = RestrictionArms([Playing |-> {"play", "system"}])]

OrderPhase ==
  Enum({"Placed", "Shipped", "Delivered", "Cancelled"}, "Placed",
       {"Delivered", "Cancelled"}, {"Ship", "Deliver", "Cancel"},
       {<<"Placed", "Ship", "Shipped">>, <<"Placed", "Cancel", "Cancelled">>,
        <<"Shipped", "Deliver", "Delivered">>})

TallyPhase ==
  Enum({"Live", "Sealed"}, "Live", {"Sealed"}, {"Seal"}, {<<"Live", "Seal", "Sealed">>})

ProfilePhase ==
  Enum({"Active", "Closed"}, "Active", {"Closed"}, {"Close"},
       {<<"Active", "Close", "Closed">>})
=============================================================================
