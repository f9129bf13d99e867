----------------------------- MODULE Questions ------------------------------
(***************************************************************************)
(* A behaviour that is one question and its answer: the frame in which the *)
(* operators of Requests, ModelFiles and Machine are checked.              *)
(***************************************************************************)
EXTENDS Integers, Sequences, FiniteSets

VARIABLES
    question,  \* what it is about, and the input
    answer     \* <<>>, and then the one answer

vars == <<question, answer>>

Asked(about) == question.about = about
Answered(about) == Asked(about) /\ answer # <<>>
Given(reply) == answer = <<>> /\ answer' = <<reply>> /\ UNCHANGED question
Ask(about, input) == [about |-> about, input |-> input]

UpTo(S, n) == UNION {[1..k -> S] : k \in 0..n}
Distinct(S, n) == {s \in UpTo(S, n) : \A i, j \in DOMAIN s : s[i] = s[j] => i = j}
=============================================================================
