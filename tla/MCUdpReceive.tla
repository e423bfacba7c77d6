---------------------------- MODULE MCUdpReceive ----------------------------
(***************************************************************************)
(* Messages of every type for UdpReceive.  IDs 1 and 256 are each other's   *)
(* bytes swapped; the MSG with ID 1 is longer than the receive buffer.      *)
(***************************************************************************)
EXTENDS UdpReceive

Message(type, id, name, contents, result) ==
    [type |-> type, id |-> id, name |-> name, contents |-> contents,
     result |-> result, ref |-> 0]

name1 == <<97, 98, 99>>
MCServerMessages == {
    Message("MSG", 1, name1, <<120, 121, 122>>, 0),
    Message("MSG", 256, <<100>>, <<32>>, 0),
    Message("MSG", 2, <<100>>, <<>>, 0),
    Message("REPLY", 3, <<>>, <<110>>, 0),
    Message("REPLY", 4, <<>>, <<121, 121>>, 1),
    Message("REPLY", 5, <<>>, <<121>>, 2),
    Message("ERR", 6, <<101>>, <<122, 122>>, 0),
    Message("PING", 7, <<>>, <<>>, 0),
    Message("BYE", 8, <<98>>, <<>>, 0),
    Message("CONFIRM", 0, <<>>, <<>>, 0),
    Message("JOIN", 9, <<>>, <<>>, 0)}

MCIds == {m.id : m \in MCServerMessages}
MCName == <<109, 101>>
MCErrString == <<114>>
=============================================================================
