----------------------------- MODULE Invocation -----------------------------
(***************************************************************************)
(* What a child is started as (launch/invocation.rs, launch/binary.rs,     *)
(* Server::spawn): the binary an entry is served from and the arguments it *)
(* is given.  An argument is a flag, negated or not, and the value after   *)
(* it, if any.                                                             *)
(***************************************************************************)
EXTENDS ModelFiles

CONSTANT KeyOrder  \* the keys of flags tables, in the order a table is walked

ServerName == <<"llama-server">>
RuntimeNamed(runtime) == <<"llama-server", runtime>>

(* The binary that was configured, or the first on the search path. *)
Located(configured, files, programs) ==
    IF configured # {} THEN configured \cap files ELSE {ServerName} \cap programs

(* The one the router was started with, unless the entry names a runtime. *)
ForEntry(started, entry, programs) ==
    IF entry.runtime = {} THEN {started}
    ELSE {RuntimeNamed(The(entry.runtime))} \cap programs

-----------------------------------------------------------------------------
Argument(flag, value) == [flag |-> flag, negated |-> FALSE, value |-> {value}]
BareFlag(flag)        == [flag |-> flag, negated |-> FALSE, value |-> {}]

LongForms == [c |-> "ctx-size", ctk |-> "cache-type-k", ctv |-> "cache-type-v",
              fa |-> "flash-attn", np |-> "parallel"]
LongForm(key) == IF key \in DOMAIN LongForms THEN LongForms[key] ELSE key

(* A negation is of the key as it is written. *)
Option(key, value) ==
    CASE value \in {"true", "True"}   -> BareFlag(LongForm(key))
      [] value \in {"false", "False"} -> [BareFlag(key) EXCEPT !.negated = TRUE]
      [] OTHER                        -> Argument(LongForm(key), value)

Optionally(flag, values) ==
    IF values = {} THEN <<>> ELSE <<Argument(flag, The(values))>>

CommandLine(entry, port) ==
    LET keys == SelectSeq(KeyOrder, LAMBDA key : key \in DOMAIN entry.flags)
    IN  <<Argument("model", entry.path)>>
        \o Optionally("model-draft", entry.draft)
        \o Optionally("mmproj", entry.projector)
        \o <<Argument("ctx-size", ToString(entry.context))>>
        \o Optionally("reasoning-format", entry.format)
        \o Optionally("reasoning-effort", entry.effort)
        \o [i \in DOMAIN keys |-> Option(keys[i], entry.flags[keys[i]])]
        \o <<Argument("alias", entry.id), Argument("host", "loopback"),
             Argument("port", port)>>

(* Server::spawn: nothing, where there is no model file or no binary. *)
Spawned(entry, root, started, programs, port) ==
    {[binary |-> binary, arguments |-> CommandLine(entry, port)] :
        binary \in IF entry.path \in DOMAIN root THEN ForEntry(started, entry, programs)
                                                 ELSE {}}
=============================================================================
