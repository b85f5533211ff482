------------------------------ MODULE MCSystem ------------------------------
(***************************************************************************)
(* Small instances of System for TLC.                                      *)
(***************************************************************************)
EXTENDS System, Ciphers, TLC

CONSTANTS main, other, q1, q2, f1, f2, k

\* Main has nothing to migrate, --run-migrations, or a version that does not
\* exist; another process goes up and down.
SomePlans == main :> { <<>>, <<1>>, <<2>> } @@ other :> { <<1, 0>> }

Response(code, legal) == [code |-> code, legal |-> legal]
Script(r, end, store) == [response |-> r, end |-> end, store |-> store]

\* A call of a cipher at the end of a script, with a key that fits or not.
Cipher(op, key, data) ==
  CipherEnd([op |-> op, method |-> "des-cbc", key |-> key, iv |-> 8,
             data |-> data])

\* Codes at the edges of what HTTP and 16 bits allow, and each end, two of
\* them inside an update.
SomeScripts ==
  { Script(Response(999, TRUE), Cipher("encrypt", 8, "text"), "pcall"),
    Script(Response(2^16 + 200, TRUE), "returns", "no"),
    Script(Response(100, FALSE), Cipher("decrypt", 8, "garbled"), "no"),
    Script(Unset, Cipher("decrypt", 16, "text"), "inside"),
    Script(Unset, "hangs", "inside") }
=============================================================================
