-------------------------- MODULE MCPlatformSession --------------------------
(* PlatformSession, with the modes each run looks at.                        *)
EXTENDS PlatformSession

BothModes == {"connect", "run"}
=============================================================================
