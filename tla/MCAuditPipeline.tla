------------------------- MODULE MCAuditPipeline ---------------------------
(* Four of the files the remediator touches, each with a few contents it  *)
(* may hold before the first run.                                          *)
EXTENDS AuditPipeline

CONSTANTS fCons, fLib, fCaesar, fVal

\* trustchain/src/consensus/mod.rs is on both fix lists.
MCFiles == {fCons, fLib, fCaesar, fVal}
MCBypassList == <<fCons, fLib>>
MCUnwrapList == <<fCons>>
MCInitContent ==
    (fCons :> {<<"plain", "def", "call", "unwrap">>,   \* def gated, call replaced
               <<"def", "unwrap">>,                    \* def at offset 0: regex misses it
               <<"plain", "cfgdef">>,                  \* already gated on its own line
               <<"call", "unwrap", "call">>,           \* two calls in one file
               Absent})
 @@ (fLib :> {<<"plain", "pubmod">>, <<"pubmod">>, Absent})
 @@ (fCaesar :> {<<"plain", "mockdoc", "mockstruct", "mockimpl", "end">>,
                 <<"mockdoc", "mockstruct", "mockimpl", "end">>,   \* block at offset 0
                 <<"mockimpl", "end", "mockstruct", "mockdoc">>,   \* impl before the struct
                 Absent})
 @@ (fVal :> {Absent, <<"plain">>})
=============================================================================
