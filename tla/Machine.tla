------------------------------ MODULE Machine -------------------------------
(***************************************************************************)
(* What the router takes from the machine it runs on: the figures that its *)
(* tools print (memory), the variables of its environment (admission/      *)
(* budget.rs, idle.rs, queue.rs, launch/root.rs), and what it says of them *)
(* at its start (startup.rs).  What may be missing is a set of at most one *)
(* element.                                                                *)
(***************************************************************************)
EXTENDS Integers, Sequences, SequencesExt

CONSTANTS
    MinDeviceMargin,  \* MIN_DEVICE_MARGIN_MIB
    SystemShare,      \* SYSTEM_SHARE_PERCENT
    WaitDefault,      \* the wait for room where nothing is said
    MaxLimit,         \* the largest budget (u32::MAX)
    UnitsPerMib       \* the kibibytes, or bytes, of a mebibyte

ASSUME MachineAssumption ==
    /\ {MinDeviceMargin, WaitDefault} \subseteq Nat
    /\ SystemShare \in 0..100
    /\ {MaxLimit, UnitsPerMib} \subseteq Nat \ {0}

First(set) == CHOOSE x \in set : TRUE
Greater(a, b) == IF a > b THEN a ELSE b
AtMost(a, b) == IF a < b THEN a ELSE b

-----------------------------------------------------------------------------
(* Tools.  A run is of a tool that could not be spawned, that ends by its  *)
(* deadline with a status and what it printed, or that has to be killed.   *)
(* The deadline is of the tool only: the reader of its pipe is then joined *)
(* without one, and a process of the tool's that kept the pipe open would  *)
(* hold it.  The tools that are run start none, and none is modelled.      *)

Output(run) == IF run.ended = "success" THEN {run.text} ELSE {}

(* What is printed is a sequence of lines.  One for a device is a pair of  *)
(* its total and what is in use; a field that is no number is {}.          *)
NonBlank(text) == {i \in DOMAIN text : text[i].is # "blank"}

IsPair(line) == line.is = "pair" /\ line.left # {} /\ line.right # {}

(* The figures of some of the lines, on one side. *)
Sum(numbers) == FoldLeft(LAMBDA sum, n : sum + n, 0, numbers)

Side(text, lines, side) ==
    Sum([i \in DOMAIN text |-> IF i \in lines THEN First(text[i][side]) ELSE 0])

Summed(text, lines) ==
    {[total |-> Side(text, lines, "left"), used |-> Side(text, lines, "right")]}

(* A bug the checks must catch: a line that cannot be read is passed over. *)
Devices_PassingOver(text) ==
    LET lines == {i \in NonBlank(text) : IsPair(text[i])}
    IN  IF lines = {} THEN {} ELSE Summed(text, lines)

(* Several devices are one: what fits is what they hold together.  A line  *)
(* that cannot be read makes all of them unknown.                          *)
Devices(text) ==
    LET lines == NonBlank(text)
    IN  IF lines = {} \/ \E i \in lines : ~IsPair(text[i]) THEN {} ELSE Summed(text, lines)

Free(device) == Greater(device.total - device.used, 0)

(* A process is on a line for each device it holds some of.  One that is   *)
(* on no line is unknown, not zero.                                        *)
ComputeApps(text, pid) ==
    LET own == {i \in DOMAIN text : text[i].is = "pair" /\ text[i].left = {pid}}
    IN  IF own = {} \/ \E i \in own : text[i].right = {} THEN {}
        ELSE {Side(text, own, "right")}

(* One whole number on its own, in units of which so many make a mebibyte. *)
Scaled(text) ==
    LET alone == {i \in NonBlank(text) : NonBlank(text) = {i} /\ text[i].is = "number"}
    IN  {text[i].of \div UnitsPerMib : i \in alone}

(* The first line of a kind, in the same units: the one of meminfo that    *)
(* says the total, the one of a task list that is quoted.                  *)
OnLine(text, kind) ==
    LET i == SelectInSeq(text, LAMBDA line : line.is = kind)
    IN  IF i = 0 THEN {} ELSE {n \div UnitsPerMib : n \in text[i].left}

MeminfoTotal(text) == OnLine(text, "MemTotal")
TasklistRss(text)  == OnLine(text, "quoted")

(* A machine is what its platform is, whether it has the device's tool,    *)
(* and how a run of each tool ends.                                        *)
DeviceOf(machine) ==
    UNION {Devices(text) : text \in IF machine.tool THEN Output(machine.devices) ELSE {}}

(* A platform that none of the tools is known for says nothing. *)
SystemTotal(machine) ==
    UNION {IF machine.platform = "linux" THEN MeminfoTotal(text)
           ELSE IF machine.platform \in {"macos", "windows"} THEN Scaled(text) ELSE {} :
           text \in Output(machine.system)}

Measure(machine, pid) ==
    [resident |-> UNION {IF machine.platform = "windows" THEN TasklistRss(text)
                                                         ELSE Scaled(text) :
                         text \in Output(machine.resident)},
     device   |-> UNION {ComputeApps(text, pid) :
                         text \in IF machine.tool THEN Output(machine.apps) ELSE {}}]

(* The larger of the two sides, where either is known. *)
LargestMib(measured) ==
    LET known == measured.resident \cup measured.device
    IN  {n \in known : \A other \in known : other <= n}

-----------------------------------------------------------------------------
(* Settings.  A variable is unset, empty, a number, or text that is none.  *)

Fault == [fault |-> TRUE, value |-> {}]
Set(value) == [fault |-> FALSE, value |-> value]
IsUnset(variable) == variable.is \in {"unset", "empty"}

Variable(variable, unset) ==
    IF IsUnset(variable) THEN Set(unset)
    ELSE IF variable.is # "number" THEN Fault
    ELSE Set({variable.of})

(* The budget a machine sets: its device less a margin, or its share of    *)
(* system memory; none, where that leaves nothing or nothing is known.     *)
Margin(total) == Greater(total \div 10, MinDeviceMargin)

FromDevice(device) == Greater(device.total - Margin(device.total), 0)

Derived(machine) ==
    LET device == DeviceOf(machine)
        limits == IF device # {} THEN {FromDevice(First(device))}
                  ELSE {(total * SystemShare) \div 100 : total \in SystemTotal(machine)}
    IN  {AtMost(limit, MaxLimit) : limit \in limits \ {0}}

Budget(variable, machine) ==
    IF variable.is = "number" /\ variable.of > MaxLimit THEN Fault
    ELSE Variable(variable, IF IsUnset(variable) THEN Derived(machine) ELSE {})

(* No window, and a window of nothing, are no window; no wait is no wait.  *)
Window(variable) ==
    LET read == Variable(variable, {}) IN [read EXCEPT !.value = @ \ {0}]

Wait(variable) == Variable(variable, {WaitDefault})

(* The models root: the variable's, or the one under a home.               *)
Root(variable, home) ==
    IF ~IsUnset(variable) THEN Set({variable.of})
    ELSE IF home = {} THEN Fault
    ELSE Set({"home/models"})

(* What the residents leave of a budget, said before anything is served.   *)
Leaves(limit, reserved) ==
    IF limit = {} THEN "no budget"
    ELSE IF First(limit) < reserved THEN "does not fit"
    ELSE First(limit) - reserved

=============================================================================
