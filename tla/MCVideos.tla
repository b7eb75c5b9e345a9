-------------------------------- MODULE MCVideos --------------------------------
(* One video from the chat and one from the widget; Amy follows the owner and  *)
(* Cat the channel.                                                            *)
EXTENDS Videos

TheChats == {"v"}
TheWidgets == {"w"}
Better == {"better"}
Amy == {"amy"}
Cat == {"cat"}
=============================================================================
