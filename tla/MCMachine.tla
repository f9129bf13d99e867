----------------------------- MODULE MCMachine ------------------------------
(***************************************************************************)
(* Small machines and settings, and what is claimed of what is made of     *)
(* them.                                                                   *)
(***************************************************************************)
EXTENDS Startup, Questions

Pairing(left, right) == [is |-> "pair", left |-> left, right |-> right, of |-> 0]
Line(is, of) == [is |-> is, left |-> {of}, right |-> {}, of |-> of]
Ends(texts) == {[ended |-> "success", text |-> text] : text \in texts}
               \cup {[ended |-> ended, text |-> <<Line("number", 900)>>] :
                        ended \in {"failure", "killed", "not spawned"}}

DeviceTexts == UpTo({Line("blank", 0), Line("error", 0), Pairing({3}, {1}),
                     Pairing({60}, {20}), Pairing({60}, {})}, 2)
SystemTexts == {<<>>, <<Line("number", 900)>>, <<Line("error", 0)>>,
                <<Line("MemFree", 8), Line("MemTotal", 900)>>}
AppTexts == UpTo({Pairing({1}, {5}), Pairing({1}, {7}), Pairing({1}, {}), Pairing({2}, {9}),
                  Line("error", 0)}, 2)

Variables == {[is |-> "unset", of |-> 0], [is |-> "empty", of |-> 0],
              [is |-> "number", of |-> 0], [is |-> "number", of |-> 50],
              [is |-> "number", of |-> MaxLimit + 1], [is |-> "words", of |-> 0]}

Silent == [ended |-> "failure", text |-> <<>>]
Machines ==
    [platform : {"linux", "macos", "other"}, tool : BOOLEAN, devices : Ends(DeviceTexts),
     system : Ends(SystemTexts), apps : {Silent}, resident : {Silent}]
    \cup
    [platform : {"linux", "windows"}, tool : {TRUE}, devices : {Silent}, system : {Silent},
     apps : Ends(AppTexts),
     resident : Ends({<<Line("number", 90)>>, <<Line("quoted", 90)>>, <<>>})]

Settings == [variable : Variables, machine : Machines]

Configured(variable, machine) ==
    [budget |-> Budget(variable, machine), window |-> Window(variable),
     wait |-> Wait(variable), root |-> Root(variable, {}),
     free |-> {Free(device) : device \in DeviceOf(machine)},
     measured |-> Measure(machine, 1), held |-> LargestMib(Measure(machine, 1)),
     leaves |-> Leaves(Budget(variable, machine).value, 30)]

Configure ==
    /\ Asked("machine")
    /\ Given(Configured(question.input.variable, question.input.machine))

Readable(run, is(_)) ==
    run.ended = "success" /\ \A i \in DOMAIN run.text : is(run.text[i])

WholeOrUnknown(variable, machine, reply) ==
    LET devices  == machine.devices
        whole    == /\ machine.tool
                    /\ Readable(devices, LAMBDA line :
                                   line.is = "blank" \/ (line.is = "pair" /\ line.right # {}))
                    /\ \E i \in DOMAIN devices.text : devices.text[i].is = "pair"
        total    == Sum([i \in DOMAIN devices.text |->
                             IF devices.text[i].is = "pair"
                             THEN First(devices.text[i].left) ELSE 0])
        own      == {i \in DOMAIN machine.apps.text :
                       machine.apps.text[i].is = "pair" /\ machine.apps.text[i].left = {1}}
    IN  /\ variable.is = "words" => reply.budget.fault /\ reply.window.fault
                                    /\ reply.wait.fault
        /\ variable.is \in {"unset", "empty"} =>
             /\ reply.window.value = {} /\ reply.wait.value = {WaitDefault}
             /\ reply.root.fault
             /\ \A limit \in reply.budget.value :
                  /\ limit > 0
                  /\ IF whole THEN /\ limit + MinDeviceMargin <= total
                                   /\ limit + total \div 10 <= total
                              ELSE limit * 100 <= (900 \div UnitsPerMib) * SystemShare
        /\ variable.is = "number" /\ variable.of = 0 =>
             reply.window.value = {} /\ reply.wait.value = {0}
        /\ reply.free # {} => whole /\ First(reply.free) <= total
        /\ reply.measured.device # {} =>
             /\ First(reply.held) >= First(reply.measured.device)
             /\ own # {} /\ \A i \in own : machine.apps.text[i].right # {}
             /\ \A i \in own : First(reply.measured.device) >=
                                  First(machine.apps.text[i].right)

FiguresAreWholeOrUnknown ==
    Answered("machine") =>
        WholeOrUnknown(question.input.variable, question.input.machine, answer[1])

-----------------------------------------------------------------------------
(* Starts: of everything that is settled, one thing may be wrong, or two.  *)
Address(name, port, wildcard, taken, assigned) ==
    [is |-> "address", name |-> name, port |-> port, wildcard |-> wildcard,
     taken |-> taken, assigned |-> assigned]
Loopback == {Address("loopback", port, FALSE, FALSE, 0) : port \in {AnyPort, 80}}
Pieces == {[is |-> "blank"], [is |-> "words"]} \cup Loopback \cup
          {Address("bridge", 80, FALSE, FALSE, AssignedWithin - 1),
           Address("later", AnyPort, FALSE, FALSE, AssignedWithin + 1),
           Address("other", 80, FALSE, TRUE, 0), Address("any", 80, TRUE, FALSE, 0)}

AMachine == CHOOSE m \in Machines : m.platform = "linux" /\ m.tool
                                      /\ m.devices.ended = "success"

Setups == [usable : BOOLEAN, root : {[is |-> "unset", of |-> 0], [is |-> "words", of |-> 0]},
           home : {{}, {1}}, located : {{}, {1}}, machine : {AMachine},
           operand : UpTo(Pieces, 3), budget : {[is |-> "unset", of |-> 0]},
           window : {[is |-> "empty", of |-> 0]}, wait : {[is |-> "number", of |-> 0]}]
    \cup [usable : {TRUE}, root : {[is |-> "unset", of |-> 0]}, home : {{1}},
          located : {{}, {1}}, machine : {AMachine},
          operand : UpTo(Loopback, 2),
          budget : Variables, window : Variables, wait : Variables]

StartServing == Asked("serve") /\ Given(Serve(question.input))

Understood(variable) == variable.is # "words"

ServesWhatItWasTold ==
    Answered("serve") =>
        LET setup   == question.input
            pieces  == setup.operand
            address == {i \in DOMAIN pieces : pieces[i].is = "address"}
        IN  answer[1] = "serving" <=>
              /\ setup.usable /\ setup.located # {}
              /\ setup.home # {} \/ setup.root.is # "unset"
              /\ Understood(setup.budget) /\ setup.budget.of <= MaxLimit
              /\ Understood(setup.window) /\ Understood(setup.wait)
              /\ address # {}
              /\ \A i \in DOMAIN pieces : pieces[i].is # "words"
              /\ \A i \in address : ~pieces[i].wildcard /\ ~pieces[i].taken
                                      /\ pieces[i].assigned <= AssignedWithin
              /\ \A i, j \in address :
                   pieces[i] = pieces[j] => i = j \/ pieces[i].port = AnyPort

(* A figure is the machine's own, whole, or there is none: a budget that   *)
(* nobody set leaves the least margin and a tenth of all the devices the   *)
(* tool lists, or is no more than its share of the system's memory, and a  *)
(* device that cannot be read is not left out of a sum.  A setting that    *)
(* was mistyped is a fault and never what an unset one would be, nought    *)
(* means what its variable says it means, and a router serves exactly when *)
(* it understood every setting and holds every address it was given, the   *)
(* ones that came late and the ports that were left open, once for each    *)
(* time they are given, included (budget.rs, idle.rs, queue.rs,            *)
(* memory/parse.rs, listen.rs, serving.rs).                                *)
NothingIsGuessed == FiguresAreWholeOrUnknown /\ ServesWhatItWasTold

=============================================================================
