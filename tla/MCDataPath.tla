------------------------------ MODULE MCDataPath ------------------------------
(* An instance of DataPath: the address "a" is a prefix of "b", device "a" has  *)
(* two streams in one list, one of them twice, and no url in the other list.    *)
EXTENDS DataPath

MCExtended == [ip \in Ips |-> IF ip = "a" THEN {"a", "b"} ELSE {ip}]

On(ip, s) == [ip |-> ip, stream |-> s, online |-> TRUE]
Off(ip, s) == [ip |-> ip, stream |-> s, online |-> FALSE]

Both    == [type |-> "CAMERA", form |-> "ok",
            list |-> <<On("a", NoStream), On("b", 0), On("a", 1), Off("a", 0)>>]
One     == [type |-> "CAMERA", form |-> "ok", list |-> <<Off("a", NoUrl)>>]
Status  == [type |-> "AVAILABLE", form |-> "ok", ips |-> <<"a">>, server |-> TRUE]
Status2 == [type |-> "AVAILABLE", form |-> "ok", ips |-> <<"b", "a">>, server |-> FALSE]
Sensors == [type |-> "META", form |-> "ok", ip |-> "a"]
Alarm   == [type |-> "AI", form |-> "ok", ip |-> "a", alarm |-> TRUE, count |-> TRUE]
Image   == [type |-> "IMAGE", form |-> "ok", ip |-> "a"]
Users   == [type |-> "ASSIGN", form |-> "ok", ok |-> TRUE]
Broken  == [Both EXCEPT !.form = "bad"]
Throws  == [Status EXCEPT !.form = "throws"]

MCPackets == << {Both, Image, Alarm, Broken},
                {One, Status, Sensors, Image, Users},
                {One, Status2, Alarm, Image, Throws} >>

===============================================================================
