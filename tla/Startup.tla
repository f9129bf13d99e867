------------------------------ MODULE Startup -------------------------------
(***************************************************************************)
(* What serve does before it serves (serving.rs, proxy/listen.rs): it      *)
(* reads its settings, waits for its addresses and binds them, and gives   *)
(* up at the first thing that is wrong.                                    *)
(***************************************************************************)
EXTENDS Machine

CONSTANT AssignedWithin  \* ASSIGNED_WITHIN: how long an address is waited for

ASSUME StartupAssumption == AssignedWithin \in Nat

(* The operand's pieces, the blank ones left out; one that is no address   *)
(* is a fault.                                                             *)
Keeping(pieces, piece) == IF piece.is = "blank" THEN pieces ELSE Append(pieces, piece)

Addresses(operand) ==
    LET pieces == FoldLeft(Keeping, <<>>, operand)
    IN  IF \E i \in DOMAIN pieces : pieces[i].is = "words" THEN Fault ELSE Set({pieces})

(* An address is held by an interface from some moment on.  Only one that  *)
(* is not held yet is waited for, and all are waited for by one deadline.  *)
Awaited(now, address) ==
    IF address.taken THEN now ELSE Greater(now, AtMost(address.assigned, AssignedWithin))

AwaitAssigned(addresses) == FoldLeft(Awaited, 0, addresses)

(* A port that is named cannot be bound by two: not when another process   *)
(* has it (the address is taken), and not by this one twice.  Port zero is *)
(* whichever port is free: nobody has it, and asked for twice it is two    *)
(* ports.  That it is a port which a later operand names is left out.      *)
AnyPort == 0

Bindable(addresses, i, now) ==
    /\ ~addresses[i].taken /\ addresses[i].assigned <= now
    /\ \A j \in 1..(i - 1) : addresses[j] = addresses[i] => addresses[i].port = AnyPort

Reserve(addresses, now) ==
    LET failing == {i \in DOMAIN addresses :
                      addresses[i].wildcard \/ ~Bindable(addresses, i, now)}
        first   == CHOOSE i \in failing : \A j \in failing : i <= j
    IN  IF addresses = <<>> THEN "no address"
        ELSE IF failing = {} THEN "serving"
        ELSE IF addresses[first].wildcard THEN "wildcard" ELSE "cannot bind"

(* serve: each reading in its order, and the first fault is all that is    *)
(* said.                                                                   *)
Serve(setup) ==
    LET addresses == Addresses(setup.operand)
        readings  == <<<<"catalog", ~setup.usable>>,
                       <<"root", Root(setup.root, setup.home).fault>>,
                       <<"binary", setup.located = {}>>,
                       <<"addresses", addresses.fault>>,
                       <<"budget", Budget(setup.budget, setup.machine).fault>>,
                       <<"window", Window(setup.window).fault>>,
                       <<"wait", Wait(setup.wait).fault>>>>
        wrong     == SelectInSeq(readings, LAMBDA reading : reading[2])
    IN  IF wrong # 0 THEN readings[wrong][1]
        ELSE Reserve(First(addresses.value), AwaitAssigned(First(addresses.value)))
=============================================================================
