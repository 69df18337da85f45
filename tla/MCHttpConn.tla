----------------------------- MODULE MCHttpConn -----------------------------
(***************************************************************************)
(* Instances of the HTTP/1.1 driver for TLC.                               *)
(***************************************************************************)
EXTENDS HttpConnProps

Kind(safe, keep, body, expect, claim) ==
  [safe |-> safe, keep |-> keep, body |-> body, expect |-> expect,
   upgrade |-> claim = "upgrade", stream |-> claim = "stream"]

get   == Kind(TRUE, TRUE, "none", "none", "none")
flow  == Kind(TRUE, TRUE, "none", "none", "stream")
lastget == Kind(TRUE, FALSE, "none", "none", "none")
post  == Kind(FALSE, TRUE, "length", "continue", "none")
upgr  == Kind(TRUE, TRUE, "none", "none", "upgrade")
chunk == Kind(FALSE, TRUE, "chunked", "none", "none")
bad(body) == Kind(FALSE, TRUE, body, "none", "none")
other == Kind(FALSE, TRUE, "length", "other", "none")

MCKinds == {get, flow, lastget, post, upgr, chunk, other}
             \cup {bad(b) : b \in {"huge", "over", "malformed", "reject"}}
MCScripts == {<<get, post>>, <<post, flow>>, <<get, chunk>>, <<flow, upgr>>, <<upgr, get>>,
              <<get, bad("over")>>, <<flow, bad("reject")>>, <<lastget, get>>,
              <<bad("malformed"), get>>, <<bad("huge"), get>>, <<other, get>>,
              <<flow, flow>>, <<get, get, get>>}
MCStall == {<<chunk, get>>}
MCAnswers == [fate : {"kept", "void", "bare"}, close : BOOLEAN]
=============================================================================
