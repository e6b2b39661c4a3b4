---------------------------- MODULE MCXmlReader ----------------------------
(***************************************************************************)
(* Two connections, on which a request and an answer, an element with a    *)
(* text in it, or an element with a malformed tag may come.                *)
(***************************************************************************)
EXTENDS XmlReader

Request   == <<"session", "name", "john", "/name", "/session">>
Round     == <<"round-request/">>
Broken    == <<"act", "name x", "/act">>
MCScripts == {<<Request, Round>>, <<Round, Broken, Round>>, <<Broken>>}
MCClosing == {"/session", "/name", "/act"}
MCEmpty   == {"round-request/"}
MCMalformed == {"name x"}
MCText    == {"john", "newline"}
=============================================================================
