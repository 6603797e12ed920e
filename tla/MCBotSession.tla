---------------------------- MODULE MCBotSession -----------------------------
(***************************************************************************)
(* An instance of BotSession for TLC: the user sets a model and repeats it *)
(* until it works, while the list of models and the API password are asked *)
(* for.                                                                    *)
(***************************************************************************)
EXTENDS BotSession, TLC

CONSTANTS h1, h2, h3

Kinds == h1 :> "set_model" @@ h2 :> "models" @@ h3 :> "password"

=============================================================================
