--------------------------- MODULE MCImplicitScope ---------------------------
(* Scopes of every family, registrations of every key by either family.    *)
EXTENDS ImplicitScope

AllRegistrations ==
    [key : [family : {"IO", "Result", "expected"}, capability : Capabilities] \cup {Show, ShowVector},
     family : {"IO", "Result"}]

=============================================================================
