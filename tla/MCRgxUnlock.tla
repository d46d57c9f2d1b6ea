------------------------------ MODULE MCRgxUnlock ------------------------------
(* An archive of each kind and three recipient archives: one for i with a     *)
(* password, one for as many as there may be, and one for one too many.       *)
EXTENDS RgxUnlock, TLC

CONSTANTS plain, private, alone, shared, crowd, i, j

MCKind ==
  plain :> "plain" @@ private :> "private"
    @@ alone :> "recipient" @@ shared :> "recipient" @@ crowd :> "recipient"
MCAsked ==
  plain :> <<>> @@ private :> <<>> @@ alone :> <<i>> @@ shared :> <<j, i>> @@ crowd :> <<i, j, i>>
MCFallback   == [x \in Archive |-> x = alone]

\* A file for i that needs a passphrase, and one of each that does not; whose a
\* file is that cannot be read does not matter.
MCKeyFile ==
  [form : {"clear"}, owner : Identity] \union [form : {"locked", "broken"}, owner : {i}]
================================================================================
