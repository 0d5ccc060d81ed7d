------------------------------ MODULE MCGattLink ------------------------------
(* GattLink with layouts of one and of two services. *)
EXTENDS GattLink

CONSTANTS main, extra, protocol, photo, plain

MCUUID == {main, extra, protocol, photo, plain}

Char(u) == [uuid |-> u, notify |-> u # plain]
Service(u, chars) == [uuid |-> u, primary |-> TRUE, characteristics |-> chars]

MCLayouts ==
    {<<Service(main, <<Char(protocol), Char(photo)>>)>>,
     <<Service(main, <<Char(plain)>>), Service(extra, <<Char(photo)>>)>>}

MCWanted == <<protocol, photo>>
=============================================================================
