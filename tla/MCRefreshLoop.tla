--------------------------- MODULE MCRefreshLoop ---------------------------
(* A workspace whose root holds a package, with one library package "lib"  *)
(* and one package "app" that imports it.                                  *)
EXTENDS RefreshLoop

MCNeeds == [d \in {"root", "lib", "app"} |->
              CASE d = "root" -> {"root", "mod"}
                [] d = "lib"  -> {"lib", "mod"}
                [] d = "app"  -> {"app", "lib", "mod"}]

\* One file per notification, an ignored file, and one notification that
\* names a Go file and the module files together.
MCMessages == {{"root"}, {"lib"}, {"app"}, {"other"}, {"mod", "lib"}}

\* Go files only, two packages.
MCNeeds2 == [d \in {"lib", "app"} |->
               IF d = "lib" THEN {"lib", "mod"} ELSE {"app", "lib", "mod"}]
MCMessages2 == {{"lib"}, {"app"}, {"mod"}, {"lib", "app"}, {"other"}}
=============================================================================
