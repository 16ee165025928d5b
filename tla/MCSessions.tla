----------------------------- MODULE MCSessions -----------------------------
(***************************************************************************)
(* Small instances of Sessions.  A menu fixes which operations each request *)
(* may be, so that one run explores several mixes of clients.               *)
(***************************************************************************)
EXTENDS Sessions, TLC

CONSTANTS u1, u2, e1, e2, e3

Mix(ops, hours) == [ops |-> ops, hours |-> hours]
\* Wrong and right passwords around resets and unlock mails.
LockoutMenu == Mix(<<{"login"}, {"login", "update"}, {"askReset", "askUnlock"},
                     {"reset", "unlock", "login"}>>, 1)
\* Address changes overtaking each other, and a registration.
EmailMenu == Mix(<<{"askEmail", "register"}, {"askEmail", "register"},
                   {"email", "update"}, {"email", "verify"}>>, 2)
\* A token is rotated, logged out and presented until it expires ...
RotationMenu == Mix(<<{"login"}, {"refresh", "logout"}, {"refresh"}>>, 3)
\* ... or, quickly, three times over.
ReuseMenu == Mix(<<{"login"}, {"refresh"}, {"refresh"}, {"refresh"}>>, 0)
\* Two clients of one user, and the end of all sessions.
ClientsMenu == Mix(<<{"login"}, {"login"}, {"refresh"}, {"logoutAll"}>>, 0)
SaltMenu == Mix(<<{"login", "register"}, {"access", "revokeAll"}, {"access", "revokeAll"}, {"access"}>>, 3)
ResetMenu == Mix(<<{"login"}, {"askReset"}, {"reset", "refresh"}, {"reset", "refresh"}>>, 1)
\* The nightly job beside logins, edits and what was mailed before.
RetainMenu == Mix(<<{"login", "askReset"}, {"retain"}, {"login", "reset", "update"}>>, 3)
AllMenus == {LockoutMenu, EmailMenu, RotationMenu, ReuseMenu, ClientsMenu, SaltMenu,
             ResetMenu, RetainMenu}
Names == Permutations({u1, u2}) \cup Permutations({e1, e2, e3})
=============================================================================
