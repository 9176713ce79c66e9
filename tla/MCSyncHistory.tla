---- MODULE MCSyncHistory ----
EXTENDS MCIc35Sync, SyncHistory
====
