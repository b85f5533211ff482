------------------------------ MODULE Ciphers -------------------------------
(***************************************************************************)
(* How a call of encrypt or decrypt ends (src/lua_binding/crypto.rs): with *)
(* a result, with an error of the script, or with a panic, as a key or an  *)
(* IV of another length than the cipher's does not convert to its array.   *)
(***************************************************************************)
EXTENDS Integers

\* The lengths of keys and of IVs, which are those of the blocks; ECB mode
\* takes no notice of an IV.
KeyLength == [method \in {"aes-cbc", "des-cbc", "des-ecb"} |->
                IF method = "aes-cbc" THEN 16 ELSE 8]
IvLength == [method \in {"aes-cbc", "des-cbc"} |->
               IF method = "aes-cbc" THEN 16 ELSE 8]

\* An argument that is not there.
None == -1

\* A method that nobody knows, no IV where one is needed, and an input of
\* decrypt that is no hexadecimal text are errors.
Rejected(c) ==
  \/ c.method \notin DOMAIN KeyLength
  \/ c.method \in DOMAIN IvLength /\ c.iv = None
  \/ c.op = "decrypt" /\ c.data = "no hex"

\* Nobody asks for the lengths of the key and the IV but the conversion.
WrongLength(c) ==
  \/ c.key # KeyLength[c.method]
  \/ c.method \in DOMAIN IvLength /\ c.iv # IvLength[c.method]

\* decrypt finds that its input is not what encrypt made of a text.
Garbled(c) == c.op = "decrypt" /\ c.data = "garbled"

CipherEnd(c) ==
  CASE Rejected(c) -> "raises"
    [] ~Rejected(c) /\ WrongLength(c) -> "panics"
    [] ~Rejected(c) /\ ~WrongLength(c) ->
         IF Garbled(c) THEN "raises" ELSE "returns"
=============================================================================
