---------------------------- MODULE MCGuardianHome -----------------------------
(* A small instance of GuardianHome for TLC.                               *)
EXTENDS GuardianHome

CONSTANTS p1, p2, k1, k2, v0, v1, v2, a1, a2, c1, c2

MCCategory == [a \in {a1, a2} |-> IF a = a1 THEN c1 ELSE c2]
MCWeight == [a \in {a1, a2} |-> 1]
MCCap == [c \in {c1, c2} |-> IF c = c1 THEN 80 ELSE 40]
MCVersion == [v \in {v0, v1, v2} |-> IF v = v0 THEN 0 ELSE IF v = v1 THEN 1 ELSE 2]

Took(package, s1, s2, take) ==
  [package |-> package, status |-> [a \in {a1, a2} |-> IF a = a1 THEN s1 ELSE s2],
   take |-> take]

\* The second take of v1 has lost what the first one passed; each take of v2 regains
\* something and has lost something, for certain or not.
MCResults ==
  {Took(v0, "failed", "failed", 1), Took(v1, "passed", "failed", 1),
   Took(v1, "mixed", "passed", 2), Took(v2, "passed", "mixed", 1),
   Took(v2, "failed", "passed", 2)}

MCBundles ==
  {[key |-> k1, rev |-> "r1", seq |-> 1, catalog |-> "A", permitted |-> TRUE],
   [key |-> k1, rev |-> "r1", seq |-> 2, catalog |-> "B", permitted |-> TRUE],
   [key |-> k2, rev |-> "r2", seq |-> 1, catalog |-> "A", permitted |-> TRUE],
   [key |-> k1, rev |-> "r2", seq |-> 1, catalog |-> "A", permitted |-> FALSE]}

-----------------------------------------------------------------------------
(* Discoveries: a selected library, an excluded one and the target.        *)

Lib(f, v, pub, use) == [file |-> f, version |-> v, published |-> pub, use |-> use]
At(f, v) == [file |-> f, version |-> v]
Token(v, x) == [id |-> "color", file |-> "lib", version |-> v, locator |-> "t", content |-> x]
Asset(f, i, x) ==
  [id |-> i, file |-> f, version |-> 1, locator |-> i, content |-> x,
   instances |-> {At("work", 1)}]

Good(x) ==
  [target |-> At("work", 1),
   candidates |-> {Lib("lib", 1, TRUE, TRUE), Lib("other", 1, TRUE, FALSE)},
   adapters |-> "none",
   sources |-> {At("lib", 1), At("other", 1), At("work", 1)},
   provenance |-> At("lib", 1),
   tokens |-> {Token(1, x)},
   assets |-> {Asset("lib", "button", x), Asset("other", "badge", x)},
   readback |-> [sources |-> {At("lib", 1)}, tokens |-> {Token(1, x)},
                 assets |-> {Asset("lib", "button", x)}]]

Ask(run, d) ==
  [run |-> run, discovery |-> d,
   permission |-> [granted |-> TRUE, run |-> run, discovery |-> d]]

\* Two catalogs of one scope for one run, another run, and requests to refuse.
MCRequests ==
  {Ask("run1", Good("A")), Ask("run1", Good("B")), Ask("run2", Good("B")),
   [Ask("run2", Good("A")) EXCEPT !.permission.granted = FALSE],
   [Ask("run1", Good("A")) EXCEPT !.permission.discovery = Good("B")],
   Ask("run2", [Good("A") EXCEPT !.candidates = {Lib("lib", 1, FALSE, TRUE)}]),
   Ask("run2", [Good("A") EXCEPT !.sources = {At("lib", 2), At("work", 1)}]),
   Ask("run2", [Good("A") EXCEPT !.readback.tokens = {Token(1, "B")}])}

MCPersonal == {Scope(r.discovery) : r \in MCRequests}
\* Three commands where a command, its crash and its repetition meet another one.
MCAgendas ==
  {[kinds |-> {"install", "select", "onboard"}, most |-> 2],
   [kinds |-> {"install", "enroll", "select"}, most |-> 2],
   [kinds |-> {"migrate", "enroll"}, most |-> 3],
   [kinds |-> {"select"}, most |-> 3],
   [kinds |-> {"install", "evaluate"}, most |-> 3],
   [kinds |-> {"migrate", "evaluate"}, most |-> 3],
   [kinds |-> {"onboard", "profile"}, most |-> 3],
   [kinds |-> {"onboard", "profile", "upgrade"}, most |-> 2],
   [kinds |-> {"profile", "upgrade"}, most |-> 4],
   [kinds |-> {"onboard", "schema", "restore"}, most |-> 3],
   [kinds |-> {"schema", "restore"}, most |-> 4]}

\* Two enrolments of one Elo ledger.
MCEnrollments == {[kinds |-> {"migrate"}, most |-> 2]}

Symmetry == Permutations({p1, p2})
=============================================================================
