------------------------------ MODULE MCMachine ------------------------------
(* Values of Machine's constants for TLC.                                   *)
EXTENDS Machine, TLC

P == INSTANCE Phases

Alone(d) == Lineage(<<d>>, <<>>)

\* Every transition function on three states and two events, of which one
\* carries a kind (the terminal state goes nowhere but back, by one event); with
\* one terminal state or two; and with a restriction on the initial state, on
\* the one between, or on none.  A mark without kinds is no restriction.
Target == <<"A", "B", "C", "none">>

Go == <<"go", 0>>

Sig == <<"sig", 0>>

Small(i, terminal, marks) ==
  LET digit(k) == Target[((i \div k) % 4) + 1]
      to == [se \in {"A", "B", "C"} \X {Go, Sig} |->
               CASE se = <<"A", Go>>  -> digit(1)
                 [] se = <<"A", Sig>> -> digit(4)
                 [] se = <<"B", Go>>  -> digit(16)
                 [] se = <<"B", Sig>> -> digit(64)
                 [] se = <<"C", Go>>  -> IF i >= 256 THEN "A" ELSE "none"
                 [] OTHER             -> "none"]
  IN [states |-> {"A", "B", "C"}, initial |-> "A", terminal |-> terminal,
      restriction |-> P!RestrictionArms(marks), kinds |-> "sig" :> {"k"},
      events |-> {Go, Sig},
      transition |-> [se \in {x \in DOMAIN to : to[x] # "none"} |-> to[se]]]

SmallCount == 512

\* A payload decides: sig moves only when it is not the default.
Guarded ==
  [states |-> {"A", "B", "C"}, initial |-> "A", terminal |-> {"C"},
   restriction |-> P!NoMarks, kinds |-> P!NoMarks,
   events |-> {<<"go", 0>>, <<"sig", 0>>, <<"sig", 1>>},
   transition |-> (<<"A", <<"go", 0>>>> :> "B") @@ (<<"A", <<"sig", 1>>>> :> "C")
                  @@ (<<"B", <<"sig", 1>>>> :> "C")]

\* Three versions of a machine.  Names come back with another meaning, so a
\* payload read as the wrong version's is a different state.
Door(states, initial, terminal, triples) ==
  P!Enum(states, initial, terminal, {"step"}, triples)

Doors ==
  Lineage(<<Door({"open", "shut"}, "open", {"shut"}, {<<"open", "step", "shut">>}),
            Door({"open", "shut", "ajar"}, "open", {"shut"},
                 {<<"ajar", "step", "open">>, <<"open", "step", "shut">>}),
            Door({"open", "shut"}, "shut", {"open"}, {<<"shut", "step", "open">>})>>,
          <<("open" :> "ajar") @@ ("shut" :> "open"),
            ("open" :> "shut") @@ ("shut" :> "open") @@ ("ajar" :> "shut")>>)

Listed ==
  <<Doors, Alone(P!Release), Alone(Guarded), Alone(P!AccountPhase), Alone(P!ChestPhase),
    Alone(P!MatchPhase), Alone(P!OrderPhase), Alone(P!TallyPhase), Alone(P!ProfilePhase)>>

MCName == 1 .. Len(Listed) + 3 * SmallCount

MCLineages ==
  [n \in MCName |->
     LET k == n - Len(Listed) - 1
         i == k % SmallCount
     IN CASE n <= Len(Listed)    -> Listed[n]
          [] k \div SmallCount = 0 -> Alone(Small(i, {"C"}, "B" :> {"k"}))
          [] k \div SmallCount = 1 -> Alone(Small(i, {"C"}, "A" :> {"k", "other"}))
          [] OTHER               -> Alone(Small(i, {"B", "C"}, "A" :> {}))]

\* Long enough for every simple path, of the small machines and of a release.
MCMaxMoves == [n \in MCName |-> IF n <= 2 THEN 7 ELSE 3]
=============================================================================
