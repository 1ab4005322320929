---------------------------- MODULE MCCacheIndex ----------------------------
(* Package lib with a test variant that knows a mock, package app with a   *)
(* method whose simple name is that of a function of lib, and, for the     *)
(* runs that want one, a package in the workspace root.                    *)
EXTENDS CacheIndex

MCDirOf == [k \in {"lib:1", "lib:2", "app:1", "root:1"} |->
              CASE k \in {"lib:1", "lib:2"} -> "lib"
                [] k = "app:1" -> "app"
                [] OTHER -> "root"]
MCDirOf2 == [k \in {"lib:1", "lib:2", "app:1"} |-> MCDirOf[k]]

MCVariantDir == [v \in {"lib", "lib.test", "app", "root"} |->
                   IF v = "lib.test" THEN "lib" ELSE v]
MCVariantDir2 == [v \in {"lib", "lib.test", "app"} |-> MCVariantDir[v]]

MCSimple == [n \in {"Get", "(*S).Get"} |->
               IF n = "(*S).Get" THEN "Get" ELSE n]

Line(k, n, c, s) == [key |-> k, name |-> n, concrete |-> c, sentinels |-> s]

\* Get in lib: absent; on line 1; moved to line 2; on line 1 returning a
\* sentinel of its own and those of two implementations.
LibReports == {
  <<>>,
  <<Line("lib:1", "Get", "-", {"EOF"})>>,
  <<Line("lib:2", "Get", "-", {"EOF"})>>,
  <<Line("lib:1", "Get", "-", {"EOF", "NoRows", "Mine"}),
    Line("lib:1", "Get", "A", {"EOF"}),
    Line("lib:1", "Get", "B", {"NoRows"})>>}

\* With the test files, A may return one more and B is a mock.
LibTestReports == {
  <<>>,
  <<Line("lib:1", "Get", "-", {"EOF", "Mine"}),
    Line("lib:1", "Get", "A", {"EOF", "Mine"}),
    Line("lib:1", "Get", "B", {"EOF"})>>}

AppReports == {<<>>, <<Line("app:1", "(*S).Get", "-", {"NoRows"})>>}

MCReports == [v \in {"lib", "lib.test", "app", "root"} |->
                CASE v = "lib" -> LibReports
                  [] v = "lib.test" -> LibTestReports
                  [] v = "app" -> AppReports
                  [] OTHER -> {<<>>, <<Line("root:1", "Get", "-", {"EOF"})>>}]
MCReports2 == [v \in {"lib", "lib.test", "app"} |-> MCReports[v]]

=============================================================================
