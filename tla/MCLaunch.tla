------------------------------ MODULE MCLaunch ------------------------------
(* A small instance of Launch for TLC. *)
EXTENDS Launch

SomeSymbols == {"lua_close", "lua_pcallk", "lua_getinfo", "lua_arith", "luaopen_debug"}
EngineKeeps == {"luaopen_debug"}
NotInLuaDll == {"lua_getinfo"}
=============================================================================
