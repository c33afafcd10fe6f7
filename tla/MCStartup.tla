------------------------------ MODULE MCStartup ------------------------------
(***************************************************************************)
(* The rig with its three links, and a script that adds links to the ports *)
(* 9696 to 9698.                                                           *)
(***************************************************************************)
EXTENDS Startup

Option(name, value) == [option |-> name, number |-> TRUE, value |-> value]
NotANumber(name)    == [option |-> name, number |-> FALSE, value |-> 0]
Operand             == NotANumber("none")

Handles    == {1, 2, 3}
Peers      == 1..3
Links9696  == <<9696, 9697, 9698>>
NoLinks    == <<>>
NoPorts    == {}
TakenPort  == {1}
NoTypes    == {}
Failures   == {"accept", "poll"}
NoFailures == {}
AnyType    == {UDP, 3}
OneTalker  == {1}

CommandLines ==
    { <<>>,
      <<NotANumber("help")>>,
      <<Option("transport", TCP), Option("port", 9696)>>,
      <<Operand, Option("transport", UDP), NotANumber("address"), Option("port", 65535)>>,
      <<NotANumber("transport"), Option("port", 0)>> }

\* ./ccnxTestrig -t 0 127.0.0.1 9696
Documented == { <<Option("transport", UDP), Operand, Operand>> }

=============================================================================
