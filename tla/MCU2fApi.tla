----------------------------- MODULE MCU2fApi -----------------------------
(* Instances of U2fApi for TLC: a sign, a register and a version call.     *)
EXTENDS U2fApi, TLC
CONSTANTS s1, r1, v1

MCCalls == {s1, r1, v1}
MCKind == s1 :> "sign" @@ r1 :> "register" @@ v1 :> "version"
MCTwoCalls == {s1, r1}
MCTwoKinds == s1 :> "sign" @@ r1 :> "register"
MCListening == {"chromeRuntime", "androidChrome", "other"}
MCMobile == {"androidChrome", "iosChrome"}
=============================================================================
