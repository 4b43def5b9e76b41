------------------------------ MODULE MCRounds ------------------------------
EXTENDS Rounds

MCDeck == <<"Haus", "Zeit", "Jahr">>
=============================================================================
