------------------------------ MODULE MCSending ------------------------------
(* A small instance of Sending for TLC. *)
EXTENDS Sending

CONSTANTS m1, app, other

\* What a session can get wrong: a bad key, and what its options let through.
FormsValue ==
    [m \in {m1} |-> {{}, {"key"}, {"size", "fee"}}]

\* One good form.
GoodValue == [m \in {m1} |-> {{}}]

\* The options as they are written to be used, and in the other case.
OptionsValue == [m \in {m1} |-> [protocol |-> Null, channelHash |-> <<"room", "lower">>]]
OtherCaseValue ==
    [m \in {m1} |-> [protocol |-> <<"C7", "lower">>, channelHash |-> <<"room", "upper">>]]

KeysValue == {Sealed[a].key : a \in Attempts}
CommitmentsValue == {Sealed[a].commitment : a \in Attempts} \cup {Anchored[a] : a \in Attempts}
=============================================================================
