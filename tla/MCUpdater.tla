------------------------------- MODULE MCUpdater -------------------------------
EXTENDS Updater
=============================================================================
