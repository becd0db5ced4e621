------------------------------ MODULE MCRequest ------------------------------
(* Urls of all combinations of present and absent parts; their texts hold    *)
(* the bytes that have a meaning in a url, and one above 127.                *)
EXTENDS Request_proofs

(* "H"; "h" and "i"; ":", ":8080", ":65535" and ":65616", which is no port.  *)
Protos == {<<>>, <<<<72>>>>}
Hosts == {<<104>>, <<105>>}
Ports ==
    {<<>>, <<<<>>>>, <<<<56, 48, 56, 48>>>>, <<<<54, 53, 53, 51, 53>>>>,
     <<<<54, 53, 54, 49, 54>>>>}

(* "/a+ /+%41", 255, "/"; "x=1", "u://".                                     *)
Paths == {<<>>, <<47, 97, 43, 32, 47, 43, 37, 52, 49, 255, 47>>}
Queries == {<<>>, <<<<120, 61, 49>>>>, <<<<117, 58, 47, 47>>>>}

MCUrls ==
    [proto : Protos, host : Hosts, port : Ports, path : Paths,
     query : Queries]

(* "" -> "", "a" -> "&=", "x" -> "2 +", "%" -> 200 "?".                      *)
MCParams ==
    LET values == [key \in {<<>>, <<97>>, <<120>>, <<37>>} |->
                        CASE key = <<>> -> <<>>
                          [] key = <<97>> -> <<38, 61>>
                          [] key = <<120>> -> <<50, 32, 43>>
                          [] OTHER -> <<200, 63>>]
    IN {[key \in keys |-> values[key]] :
            keys \in {{}, {<<>>, <<120>>}, DOMAIN values}}
=============================================================================
