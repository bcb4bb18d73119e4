---------------------------- MODULE MCFileServer ----------------------------
EXTENDS FileServer

CONSTANTS nameA, nameB

const_Names == {nameA, nameB}
=============================================================================
