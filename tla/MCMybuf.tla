------------------------------- MODULE MCMybuf -------------------------------
EXTENDS Mybuf

MCStrings == {<<>>, <<1>>, <<2, 1>>, <<1, 2, 2>>}
=============================================================================
