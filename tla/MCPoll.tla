------------------------------- MODULE MCPoll -------------------------------
EXTENDS Poll

CONSTANTS f1, f2

MCConditions == {{}, {"IN", "PRI"}, {"OUT", "ERR", "HUP"}, {"NVAL"}}
MCInterests == {{"readable"}, {"writable", "hup"}}
=============================================================================
