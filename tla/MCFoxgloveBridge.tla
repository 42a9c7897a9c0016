--------------------------- MODULE MCFoxgloveBridge ---------------------------
(***************************************************************************)
(* Small instances of the Foxglove bridge: one for its channels, one for   *)
(* its services and what clients publish.                                  *)
(***************************************************************************)
EXTENDS FoxgloveBridge

CONSTANTS alice, bob

\* An image needs a header, and both a stamp.  A shape exists only as .idl, with
\* a header, so that mesh, which needs one, is complete as .idl only.  The file of
\* half is short of a part.
MCTypes == {"image", "header", "stamp", "shape", "mesh", "half", "set.request", "set.response"}
MsgFiles ==
    [image |-> <<"header", "stamp">>, header |-> <<"stamp">>, stamp |-> <<>>,
     mesh |-> <<"stamp", "shape">>, half |-> <<>>] @@
    ("set.request" :> <<"shape">>) @@ ("set.response" :> <<>>)
IdlFiles ==
    [header |-> <<"stamp">>, stamp |-> <<>>, shape |-> <<"header", "stamp">>,
     mesh |-> <<"stamp", "shape">>]
MCFiles == [msg |-> MsgFiles, idl |-> IdlFiles]

\* Two types under one name, of which one has no channel.
Image == [name |-> "/camera", type |-> "image"]
Half == [name |-> "/camera", type |-> "half"]
Mesh == [name |-> "/mesh", type |-> "mesh"]
MCTopics == {Image, Half, Mesh}
MCListed == {"/camera", "/mesh"}

\* The first two are latched, their history is not known, and they are alike but for
\* their identity, as several broadcasters of static transforms are.
Publisher(g, t, r, d, n) ==
    [gid |-> g, topic |-> t, reliable |-> r, transient |-> d, depth |-> n]
MCPublishers ==
    {Publisher(1, Image, TRUE, TRUE, 0), Publisher(2, Image, TRUE, TRUE, 0),
     Publisher(3, Half, FALSE, TRUE, 3), Publisher(4, Mesh, FALSE, FALSE, 1)}

Set == [name |-> "/set", request |-> "set.request", response |-> "set.response"]
Get == [name |-> "/get", request |-> "set.response", response |-> "set.response"]
MCServers == {Set, Get}
MCListedServices == {"/set", "/get"}

Advert(s, e, given) == [schemaName |-> s, encoding |-> e, schema |-> given]
MCAdverts == {Advert("image", "cdr", TRUE), Advert("image", "json", FALSE),
              Advert("shape", "json", TRUE), Advert("shape", "json", FALSE)}
None == {}
TopicsOnly == {{}}
OneEach == {{"services"}, {"clientPublish"}, {"connectionGraph"}}
=============================================================================
