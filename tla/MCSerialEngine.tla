---------------------------- MODULE MCSerialEngine ----------------------------
\* SerialEngine for TLC, with the triggers, keys and lists of MCEngine.
EXTENDS MCEngine, SerialEngine
===============================================================================
