--------------------------- MODULE MCEpollEvents ---------------------------
EXTENDS EpollEvents

CONSTANTS f1, f2

MCConditions == {{}, {"IN", "PRI", "RDHUP"}, {"OUT", "ERR", "HUP"}}
MCInterests == {{}, {"readable"}, {"readable", "writable", "hup"}}
MCOptions == {{"edge"}, {"edge", "level"}, {"oneshot"}}
=============================================================================
