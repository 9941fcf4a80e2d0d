------------------------------- MODULE MCProcess -------------------------------
(***************************************************************************)
(* Process on small instances: any start, and any body after a plain one.  *)
(***************************************************************************)
EXTENDS Process

Words == {"--help", "--debug", "--root", "--port", "--sandbox-mode",
          "strict", "host-tools", "DISABLED", "9999", "99999"}

\* Every list of at most two words, a switch before options, and options repeated.
AllArgLists ==
    UNION {[1..n -> Words] : n \in 0..2}
      \cup {<<"--debug", o, w>> : o \in Options, w \in Words}
      \cup {<<"--sandbox-mode", m, "--sandbox-mode", n>> :
              m, n \in {"strict", "host-tools", "DISABLED", "other"}}

\* Requests come after a start without arguments and environment.
PlainStarts == {<<"unset", "unset", <<>>>>}

E(form, id) == [form |-> form, id |-> id]
B(kind, entries) == [kind |-> kind, entries |-> entries]

Simplest == {B(k, <<>>) : k \in {"health", "preflight", "unserved", "no_json", "no_utf8",
                                 "scalar", "batch"}}

\* Bodies of one and of two entries, every entry between two calls, and an error before
\* them; the ids tell the entries apart.
Forms == {"unknown_method", "bad_call", "ping", "initialized", "call", "no_object"}
AllBodies ==
    Simplest
      \cup {B("single", <<E(f, "a")>>) : f \in Forms \ {"no_object"}}
      \cup {B("batch", <<E(f, "a"), E(g, "b")>>) : f \in Forms, g \in {"bad_call", "initialized", "call"}}
      \cup {B("batch", <<E("call", "a"), E(f, "b"), E("call", "c")>>) : f \in Forms}
      \cup {B("batch", <<E("bad_call", "a"), E("call", "b"), E("call", "c")>>)}

\* One request with any body, beside two that each keep a thread for a call.
Varied == CHOOSE r \in Requests : TRUE
Mixed(b) == [r \in Requests |-> IF r = Varied THEN b ELSE B("single", <<E("call", "a")>>)]
MixedBodies == {Mixed(b) : b \in AllBodies}

\* The traffic varies after a start that is watched, on one kernel and root; it makes
\* no difference before the server serves, and after the other starts there is none.
MCInit ==
    /\ StartInit
    /\ \/ /\ <<envMode, envPort, args>> \in Watched /\ kernel = "ok" /\ root = "directory"
          /\ debug \in Debug /\ body \in Bodies
          /\ rootText \in (IF body[Varied].kind = "health" THEN RootTexts ELSE {TRUE})
       \/ debug = FALSE /\ rootText = TRUE /\ body = Mixed(B("health", <<>>))
    /\ Init

MCSpec == MCInit /\ [][ProcessNext]_processVars /\ ProcessFairness
=============================================================================
