--------------------------- MODULE MCInputChannel ---------------------------
EXTENDS InputChannel

\* A swipe of one move, a touch and a key that stay down, a pressed key.
MCCommands == { <<"touchDown", "touchMove", "touchUp">>,
                <<"touchDown">>, <<"keyDown">>, <<"keyDown", "keyUp">> }
=============================================================================
