------------------------------ MODULE MCClient ------------------------------
(***************************************************************************)
(* Scenes for TLC: three requests of any kind under every fault, and orders *)
(* on the screen with expiring tokens.                                      *)
(***************************************************************************)
EXTENDS FavoriteList

CONSTANTS c1, c2, c3, p1, p2, o1, o2, d1, d2

Scene(calls, kinds, faults, cookieOk, orders) ==
  [calls |-> calls, kinds |-> kinds, faults |-> faults, cookie |-> cookieOk,
   orders |-> orders]
MCScenes ==
  { Scene({c1, c2}, {"favor", "load"}, {"expiry"}, TRUE, {}),
    Scene({c1, c2}, {"favor"}, {"net"}, TRUE, {}),
    Scene({c1, c2, c3}, {"favor", "load"}, {}, TRUE, {}),
    Scene({c1, c2, c3}, {"favor", "register"}, {}, FALSE, {}),
    Scene({c1, c2, c3}, {"read", "write"}, {"expiry"}, TRUE, {}),
    Scene({c1, c2}, {"read", "write"}, {"expiry", "net"}, TRUE, {}),
    Scene({c1, c2}, {"read", "write", "login"}, {"expiry", "revoke"}, TRUE, {}),
    Scene({c1, c2, c3}, {"read", "write", "login"}, {"idle", "net"}, FALSE, {}),
    Scene({c1, c2, c3}, {"read", "logout", "login"}, {"expiry"}, TRUE, {}),
    Scene({c1, c2, c3}, {"prepare", "cancel"}, {}, TRUE, {o1, o2}),
    Scene({c1, c2}, {"prepare"}, {"expiry"}, TRUE, {o1}),
    Scene({c1, c2, c3}, {"prepare", "login"}, {"idle"}, FALSE, {o1}),
    Scene({c1, c2}, {"prepare"}, {"net"}, TRUE, {o1}) }
=============================================================================
